---- MODULE Spec2Model ----
(***************************************************************************)
(* A model of the note store of chenryace/timo: the tree mutation algebra  *)
(* (libs/shared/tree.ts), the cascading delete / restore endpoints of the  *)
(* server (api/trash, api/notes/[id]/meta, libs/server/note-actions.ts)    *)
(* and the editor's draft / manual-save protocol (libs/web/state).         *)
(*                                                                         *)
(* Ten specifications share the module:                                    *)
(*   SpecTree     - the pure tree algebra applied to one tree value        *)
(*   SpecInput    - the tree algebra called on any tree value              *)
(*   Spec         - the server: object store + persisted tree + endpoints  *)
(*   SpecDesync   - the endpoints on a tree and a store that disagree      *)
(*   SpecNotes    - the note endpoints and the notes they return           *)
(*   SpecClient   - the editor of one open note against a note server      *)
(*   SpecInitTree - the client's loading of the tree (cache, then server)  *)
(*   SpecRequests - the client's note requests and their cancellation      *)
(*   SpecTrash    - the client's note cache over remove and restore        *)
(*   SpecSave     - a manual save and a soft delete, await by await        *)
(***************************************************************************)
EXTENDS Integers, Sequences, FiniteSets, TLC

VARIABLES
    tree,       \* SpecTree, SpecInput: the tree value the caller holds;
                \* SpecInitTree, SpecRequests, SpecTrash: the tree in
                \* React state
    last,       \* SpecTree, SpecInput: the last algebra call;
                \* SpecNotes: the last response;
                \* SpecRequests: the client's operations, in call order
    store,      \* Spec: object store, note id -> object or NoObject
    treeStore,  \* Spec: the persisted tree (TreeStore);
                \* SpecRequests: the notes the server has
    sd,         \* Spec: the soft-delete request being handled;
                \* SpecSave: the same, one await at a time
    ed,         \* SpecClient: the editor and the open note (React state)
    idb,        \* SpecClient: persisted drafts and the note cache;
                \* SpecInitTree: the tree structure in uiCache;
                \* SpecRequests, SpecTrash: the notes in noteCache
    sv          \* SpecClient: the manual save in progress, its notifications;
                \* SpecInitTree: the run of initTree;
                \* SpecRequests: the requests of each fetcher;
                \* SpecSave: the manual save, one await at a time

treeVars == <<tree, last>>
serverVars == <<store, treeStore, sd>>
clientVars == <<ed, idb, sv>>
vars == <<tree, last, store, treeStore, sd, ed, idb, sv>>

----------------------------------------------------------------------------
(* Identifiers *)

ROOT_ID == "root"

\* The note ids of the model; Ids are the keys a tree may hold.
Notes == {"A", "B", "C"}
Ids == Notes \cup {ROOT_ID}

\* The number of child entries, over all children lists, a tree may reach in
\* SpecTree (addItem appends without looking for the id, so the lists grow
\* without limit in the code).
MaxEdges == 3

\* The number of distinct instants a request can read as the current time.
MaxTime == 1

----------------------------------------------------------------------------
(* Sequence helpers (lodash / Array.prototype) *)

Range(s) == {s[i] : i \in 1..Len(s)}

\* Array.prototype.includes
Includes(s, x) == \E i \in 1..Len(s) : s[i] = x

\* lodash pull(array, value): removes every occurrence of value
RECURSIVE pull(_, _)
pull(s, x) ==
    IF s = <<>> THEN <<>>
    ELSE IF Head(s) = x THEN pull(Tail(s), x)
    ELSE <<Head(s)>> \o pull(Tail(s), x)

\* number of occurrences of x in s
Count(s, x) == Cardinality({i \in 1..Len(s) : s[i] = x})

----------------------------------------------------------------------------
(* TreeModel.  items is a JavaScript object: a mapping that keeps the       *)
(* insertion order of its keys.  It is a sequence of item records, the key  *)
(* of a record being its id.                                                *)

NoItem == [id |-> "none", children |-> <<>>, absent |-> TRUE]

NewItem(id) == [id |-> id, children |-> <<>>, absent |-> FALSE]

DEFAULT_TREE == [rootId |-> ROOT_ID, items |-> <<NewItem(ROOT_ID)>>]

Keys(t) == {t.items[i].id : i \in 1..Len(t.items)}

\* tree.items[id]  (undefined is NoItem)
Item(t, id) ==
    IF id \in Keys(t)
    THEN t.items[CHOOSE i \in 1..Len(t.items) : t.items[i].id = id]
    ELSE NoItem

\* tree.items[id] = item
SetItem(t, id, item) ==
    IF id \in Keys(t)
    THEN [t EXCEPT !.items =
            [i \in 1..Len(t.items) |->
                IF t.items[i].id = id THEN item ELSE t.items[i]]]
    ELSE [t EXCEPT !.items = Append(t.items, item)]

\* delete tree.items[id]
RECURSIVE dropKey(_, _)
dropKey(items, id) ==
    IF items = <<>> THEN <<>>
    ELSE IF Head(items).id = id THEN dropKey(Tail(items), id)
    ELSE <<Head(items)>> \o dropKey(Tail(items), id)

DeleteKey(t, id) == [t EXCEPT !.items = dropKey(t.items, id)]

----------------------------------------------------------------------------
(* Tree Mutation Algebra (libs/shared/tree.ts) *)

\* A call either returns or throws; flattenTree's result carries which.
\*   err = "none"       the list is the value returned
\*   err = "TypeError"  item.id was read on an undefined item (dangling child)
\*   err = "RangeError" the recursion never ends (a cycle): stack overflow
FlatOk(list) == [err |-> "none", list |-> list]
FlatErr(e) == [err |-> e, list |-> <<>>]

\* The deepest recursion of flattenTree on a tree without a cycle: a path of
\* more than Cardinality(Ids) items repeats one, so the recursion is endless.
MaxDepth == Cardinality(Ids) + 1

RECURSIVE flattenFrom(_, _, _)
RECURSIVE reduceChildren(_, _, _, _)
\* flattenTree's body at recursion depth d
flattenFrom(t, rootId, d) ==
    IF Item(t, rootId).absent THEN FlatOk(<<>>)
    ELSE IF d > MaxDepth THEN FlatErr("RangeError")
    ELSE reduceChildren(t, Item(t, rootId).children, <<>>, d)

\* a reduce callback that puts an item after its descendants
reduceChildrenItemLast(t, ch, accum, d) ==
    IF ch = <<>> THEN FlatOk(accum)
    ELSE LET item == Item(t, Head(ch))
         IN  IF item.absent THEN FlatErr("TypeError")
             ELSE LET children == flattenFrom(t, item.id, d + 1)
                  IN  IF children.err # "none" THEN children
                      ELSE reduceChildren(t, Tail(ch),
                                accum \o children.list \o <<item>>, d)

\* the reduce callback, folded over the children left to visit
reduceChildren(t, ch, accum, d) ==
    IF ch = <<>> THEN FlatOk(accum)
    ELSE LET item == Item(t, Head(ch))
         IN  IF item.absent THEN FlatErr("TypeError")
             ELSE LET children == flattenFrom(t, item.id, d + 1)
                  IN  IF children.err # "none" THEN children
                      ELSE reduceChildren(t, Tail(ch),
                                accum \o <<item>> \o children.list, d)

flattenTree(t, rootId) == flattenFrom(t, rootId, 1)

\* the ids of a flattened list, in order
FlatIds(list) == [i \in 1..Len(list) |-> list[i].id]

\* addItem: the item is created before the parent is looked up
addItemCreate(t, id) ==
    IF Item(t, id).absent THEN SetItem(t, id, NewItem(id)) ELSE t

addItemThrows(t, id, pid) == Item(addItemCreate(t, id), pid).absent

\* an addItem that puts the id first in the parent's children
addItemFirst(t, id, pid) ==
    LET t1 == addItemCreate(t, id)
        parentItem == Item(t1, pid)
    IN  IF ~parentItem.absent
        THEN SetItem(t1, pid,
                [parentItem EXCEPT !.children = <<id>> \o parentItem.children])
        ELSE t1

addItem(t, id, pid) ==
    LET t1 == addItemCreate(t, id)
        parentItem == Item(t1, pid)
    IN  IF ~parentItem.absent
        THEN SetItem(t1, pid,
                [parentItem EXCEPT !.children = Append(parentItem.children, id)])
        ELSE t1

\* a removeItem that deletes the item's record as well
removeItemAndRecord(t, id) ==
    LET holders == {i \in 1..Len(t.items) : Includes(t.items[i].children, id)}
    IN  IF holders = {} THEN DeleteKey(t, id)
        ELSE LET first == CHOOSE i \in holders : \A j \in holders : i <= j
             IN  DeleteKey([t EXCEPT !.items[first].children = pull(@, id)], id)

\* removeItem: forEach stops (return false) at the first item, in key order,
\* whose children include id
removeItem(t, id) ==
    LET holders == {i \in 1..Len(t.items) : Includes(t.items[i].children, id)}
    IN  IF holders = {} THEN t
        ELSE LET first == CHOOSE i \in holders : \A j \in holders : i <= j
             IN  [t EXCEPT !.items[first].children = pull(@, id)]

restoreItemThrows(t, id, pid) == addItemThrows(removeItem(t, id), id, pid)

restoreItem(t, id, pid) == addItem(removeItem(t, id), id, pid)

\* deleteItem, step 2: pull id out of every children list
pullFromAll(t, id) ==
    [t EXCEPT !.items =
        [i \in 1..Len(t.items) |->
            [t.items[i] EXCEPT !.children = pull(@, id)]]]

\* deleteItem, step 3 without the ROOT_ID test
RECURSIVE deleteKeysRootToo(_, _)
deleteKeysRootToo(t, ids) ==
    IF ids = <<>> THEN t
    ELSE deleteKeysRootToo(DeleteKey(t, Head(ids)), Tail(ids))

\* deleteItem, step 3: delete every collected key but ROOT_ID
RECURSIVE deleteKeys(_, _)
deleteKeys(t, ids) ==
    IF ids = <<>> THEN t
    ELSE deleteKeys(IF Head(ids) # ROOT_ID THEN DeleteKey(t, Head(ids)) ELSE t,
                    Tail(ids))

\* deleteItem without the cascade: only the id's own key is deleted
deleteItemOwnKeyOnly(t, id) ==
    IF id = ROOT_ID THEN t
    ELSE deleteKeys(pullFromAll(t, id), <<id>>)

deleteItemThrows(t, id) == id # ROOT_ID /\ flattenTree(t, id).err # "none"

deleteItem(t, id) ==
    IF id = ROOT_ID THEN t
    ELSE LET childrenAndGrandchildren == flattenTree(t, id).list
             allIdsToDelete == <<id>> \o FlatIds(childrenAndGrandchildren)
         IN  deleteKeys(pullFromAll(t, id), allIdsToDelete)


\* model.isExpanded ?? false  (an item addItem created has no such field)
isExpandedOr(model, fallback) ==
    IF "isExpanded" \in DOMAIN model THEN model.isExpanded ELSE fallback

\* cleanItemModel throws on an item without an id
cleanItemModelThrows(model) == model.id = ""

\* cleanItemModel: hasChildren is computed from the children it is given
cleanItemModel(model) ==
    LET children == model.children
    IN  [id |-> model.id,
         children |-> children,
         absent |-> FALSE,
         hasChildren |-> Len(children) > 0,
         isExpanded |-> isExpandedOr(model, FALSE)]

\* the children of an item that are non-empty ids with an entry in model.items
RECURSIVE keptChildren(_, _)
keptChildren(model, ch) ==
    IF ch = <<>> THEN <<>>
    ELSE IF Head(ch) # "" /\ ~Item(model, Head(ch)).absent
         THEN <<Head(ch)>> \o keptChildren(model, Tail(ch))
         ELSE keptChildren(model, Tail(ch))

\* the root cleanTreeModel makes when there is none
SynthRoot ==
    [id |-> ROOT_ID, children |-> <<>>, absent |-> FALSE,
     hasChildren |-> FALSE, isExpanded |-> TRUE]

cleanTreeModelThrows(model) ==
    \E i \in 1..Len(model.items) : cleanItemModelThrows(model.items[i])

\* cleanTreeModel: every item cleaned, then its children filtered; the root
\* added last when it is missing
cleanTreeModel(model) ==
    LET items == [i \in 1..Len(model.items) |->
                    LET cleanedItem == cleanItemModel(model.items[i])
                    IN  [cleanedItem EXCEPT
                            !.children = keptChildren(model, cleanedItem.children)]]
        cleaned == [model EXCEPT !.items = items]
    IN  IF Item(cleaned, ROOT_ID).absent
        THEN [cleaned EXCEPT !.items = Append(items, SynthRoot)]
        ELSE cleaned

----------------------------------------------------------------------------
(* Object store (StorePostgreSQL) and note metadata *)

\* NOTE_DELETED (libs/shared/meta)
NOTE_DELETED_NORMAL == 0
NOTE_DELETED_DELETED == 1

\* The keys of an object's metadata rows: the page meta keys the model
\* follows, and the two keys cascadeSoftDeleteNotes reads the content type from.
MetaKeys == {"title", "deleted", "deletedAt", "date"}
NUMBER_KEYS == {"deleted"}
RawKeys == MetaKeys \cup {"ContentType", "contentType"}

\* a metadata row that is not there
NoVal == <<>>

\* strCompress / strDecompress: a stored value is the compressed string
strCompress(s) == <<"lz", s>>
strDecompress(v) == IF Len(v) = 2 /\ v[1] = "lz" THEN v[2] ELSE ""

\* new Date().toISOString()
Iso(n) == ToString(n)

\* JSON meta values: undefined, a string, a number
Nil == <<>>
Str(s) == <<"s", s>>
Num(n) == <<"n", n>>

valueToString(v) == IF v[1] = "n" THEN ToString(v[2]) ELSE v[2]

\* the number a decompressed string parses to, or the string itself
parseNumber(s) ==
    IF \E n \in 0..9 : ToString(n) = s
    THEN Num(CHOOSE n \in 0..9 : ToString(n) = s)
    ELSE Str(s)

NoMeta == [k \in RawKeys |-> NoVal]
NoJson == [k \in MetaKeys |-> Nil]

\* jsonToMeta: every page meta key that is not nil, compressed
jsonToMeta(json) ==
    [k \in RawKeys |->
        IF k \in MetaKeys /\ json[k] # Nil
        THEN strCompress(valueToString(json[k]))
        ELSE NoVal]

\* metaToJson: every page meta key that is there, decompressed
metaToJson(meta) ==
    [k \in MetaKeys |->
        IF meta[k] = NoVal THEN Nil
        ELSE LET strValue == strDecompress(meta[k])
             IN  IF strValue = "" THEN Nil
                 ELSE IF k \in NUMBER_KEYS THEN parseNumber(strValue)
                 ELSE Str(strValue)]

\* { ...a, ...b }
Merge(a, b) == [k \in RawKeys |-> IF b[k] # NoVal THEN b[k] ELSE a[k]]

NoObject == [absent |-> TRUE, content |-> "", meta |-> NoMeta, ctype |-> ""]

EmptyStore == [n \in Notes |-> NoObject]

hasObject(st, id) == id \in Notes /\ ~st[id].absent

\* getObjectMeta: undefined (no rows) reads as the empty metadata
getObjectMeta(st, id) == IF hasObject(st, id) THEN st[id].meta ELSE NoMeta

getObject(st, id) == IF hasObject(st, id) THEN st[id].content ELSE ""

\* putObject with metadata and a content type
putObject(st, id, content, meta, ctype) ==
    [st EXCEPT ![id] =
        [absent |-> FALSE, content |-> content, meta |-> meta, ctype |-> ctype]]

\* copyObject of a path onto itself with a content type: the content is kept,
\* the metadata replaced unless the given metadata is empty
copyObject(st, id, meta, ctype) ==
    [st EXCEPT ![id] =
        [@ EXCEPT !.meta = IF meta = NoMeta THEN @ ELSE meta,
                  !.ctype = ctype]]

\* a copyObject that takes a missing source for an empty object
copyObjectNeverThrows(st, id) == FALSE

\* copyObject throws 'Source object not found' (the transaction is rolled back)
copyObjectThrows(st, id) == ~hasObject(st, id)

deleteObject(st, id) == [st EXCEPT ![id] = NoObject]

\* the note's deletion state as metaToJson reads it
Deleted(st, id) == metaToJson(getObjectMeta(st, id))["deleted"]

----------------------------------------------------------------------------
(* Cascading delete / restore (libs/server/note-actions.ts, api/trash) *)

\* cascadeSoftDeleteNotes, the metadata written for one item at time now
softDeleteMeta(itemMetaS3, now) ==
    LET itemMetaJson == [metaToJson(itemMetaS3) EXCEPT
                            !["deleted"] = Num(NOTE_DELETED_DELETED),
                            !["deletedAt"] = Str(Iso(now)),
                            !["date"] = Str(Iso(now))]
    IN  Merge(itemMetaS3, jsonToMeta(itemMetaJson))

\* the content type cascadeSoftDeleteNotes writes
softDeleteContentType(itemMetaS3) ==
    IF itemMetaS3["ContentType"] # NoVal THEN strDecompress(itemMetaS3["ContentType"])
    ELSE IF itemMetaS3["contentType"] # NoVal THEN strDecompress(itemMetaS3["contentType"])
    ELSE "text/markdown"

\* a loop body that writes the tombstone but loses the content
softDeleteOneEmptiesContent(st, id, now) ==
    IF hasObject(st, id)
    THEN LET itemMetaS3 == getObjectMeta(st, id)
         IN  putObject(st, id, "",
                       softDeleteMeta(itemMetaS3, now),
                       softDeleteContentType(itemMetaS3))
    ELSE st

\* a loop body that writes the tombstone whether the object is there or not
softDeleteOneCreates(st, id, now) ==
    LET itemMetaS3 == getObjectMeta(st, id)
    IN  putObject(st, id, getObject(st, id),
                  softDeleteMeta(itemMetaS3, now),
                  softDeleteContentType(itemMetaS3))

\* cascadeSoftDeleteNotes, the loop body for one item
softDeleteOne(st, id, now) ==
    IF hasObject(st, id)
    THEN LET itemMetaS3 == getObjectMeta(st, id)
         IN  putObject(st, id, getObject(st, id),
                       softDeleteMeta(itemMetaS3, now),
                       softDeleteContentType(itemMetaS3))
    ELSE st

\* deleteNote (permanent): the loop over the descendants
RECURSIVE deleteObjects(_, _)
deleteObjects(st, ids) ==
    IF ids = <<>> THEN st
    ELSE deleteObjects(IF hasObject(st, Head(ids))
                       THEN deleteObject(st, Head(ids)) ELSE st,
                       Tail(ids))

\* deleteNote (permanent): the objects left in the store
hardDeleteObjects(st, t, id) ==
    LET descendants == flattenTree(t, id).list
    IN  deleteObjects(st, FlatIds(descendants))

\* a restore that only touches the modification time
restoreMetaDateOnly(oldMeta, now) ==
    Merge(oldMeta, jsonToMeta([NoJson EXCEPT !["date"] = Str(Iso(now))]))

\* restoreNote: the metadata written
restoreMeta(oldMeta, now) ==
    Merge(oldMeta,
          jsonToMeta([NoJson EXCEPT
                        !["date"] = Str(Iso(now)),
                        !["deleted"] = Str(ToString(NOTE_DELETED_NORMAL))]))

----------------------------------------------------------------------------
(* Client values (NoteModel, drafts, the save in progress) *)

\* an optional value: undefined / null, or a value
None == <<>>
Some(v) == <<v>>

\* value || fallback, for an optional string
OrElse(opt, fallback) ==
    IF opt = None \/ opt[1] = "" THEN fallback ELSE opt[1]

\* draft ?? note?.content ?? ''
Coalesce(opt, opt2) ==
    IF opt # None THEN opt[1] ELSE IF opt2 # None THEN opt2[1] ELSE ""

NoteModel(content, title) == [content |-> content, title |-> title]

\* no save has been started
NoSave == [pc |-> "idle", sent |-> NoteModel(None, None),
           originalNote |-> NoteModel(None, None), saveResult |-> None,
           out |-> "none", mismatch |-> FALSE, log |-> <<>>,
           requests |-> 0]

\* no editor is mounted (SpecTree, Spec)
NoEditor == [note |-> NoteModel(None, None), localContent |-> "",
             localTitle |-> "", hasLocalChanges |-> FALSE, isNew |-> FALSE,
             reload |-> FALSE, toast |-> "none"]

\* nothing persisted in the browser
EmptyIdb == [draftContent |-> None, draftTitle |-> None, cache |-> None]

----------------------------------------------------------------------------
(* SpecTree: the algebra applied, call after call, to the tree a caller     *)
(* holds, starting from DEFAULT_TREE.  A call that throws leaves the tree.  *)

\* What is kept of the last call: the operation, whether it returned, and
\* the keys it removed from items.
\* no soft delete is being handled
Idle == [pc |-> "idle", id |-> ROOT_ID, queue |-> <<>>,
         items |-> <<>>, now |-> 0, inTree |-> FALSE,
         storeBefore |-> EmptyStore, treeBefore |-> DEFAULT_TREE,
         res |-> "none"]

\* no request is being handled; the last one was answered with res:
\* "ok", "NotFound" (API.NOT_FOUND) or "error" (an exception thrown)
Responded(res) == [Idle EXCEPT !.res = res]

NoCall == [op |-> "none", out |-> "none", gone |-> {}]

Call(op, out, after) ==
    [op |-> op, out |-> out,
     gone |-> IF op = "deleteItem" THEN Keys(tree) \ Keys(after) ELSE {}]

\* the number of child entries of a tree
RECURSIVE sumLen(_)
sumLen(items) ==
    IF items = <<>> THEN 0
    ELSE Len(Head(items).children) + sumLen(Tail(items))

Edges(t) == sumLen(t.items)

InitTree ==
    /\ tree = DEFAULT_TREE
    /\ last = NoCall
    /\ store = EmptyStore
    /\ treeStore = DEFAULT_TREE
    /\ sd = Idle
    /\ ed = NoEditor
    /\ idb = EmptyIdb
    /\ sv = NoSave

\* TreeActions.addItem(tree, id, pid), the parent being an item of the tree
AddItem(id, pid) ==
    /\ pid \in Keys(tree)
    /\ Edges(tree) < MaxEdges
    /\ tree' = addItem(tree, id, pid)
    /\ last' = Call("addItem", "ok", tree')
    /\ UNCHANGED <<serverVars, clientVars>>

\* TreeActions.removeItem(tree, id)
RemoveItem(id) ==
    /\ tree' = removeItem(tree, id)
    /\ last' = Call("removeItem", "ok", tree')
    /\ UNCHANGED <<serverVars, clientVars>>

\* TreeActions.restoreItem(tree, id, pid), the parent being an item of the tree
RestoreItem(id, pid) ==
    /\ pid \in Keys(tree)
    /\ Edges(tree) < MaxEdges \/ Edges(removeItem(tree, id)) < Edges(tree)
    /\ tree' = restoreItem(tree, id, pid)
    /\ last' = Call("restoreItem", "ok", tree')
    /\ UNCHANGED <<serverVars, clientVars>>

\* TreeActions.deleteItem(tree, id)
DeleteItem(id) ==
    /\ IF deleteItemThrows(tree, id)
       THEN /\ tree' = tree
            /\ last' = Call("deleteItem", "throw", tree')
       ELSE /\ tree' = deleteItem(tree, id)
            /\ last' = Call("deleteItem", "ok", tree')
    /\ UNCHANGED <<serverVars, clientVars>>

NextTree ==
    \/ \E id \in Notes, pid \in Ids : AddItem(id, pid)
    \/ \E id \in Notes : RemoveItem(id)
    \/ \E id \in Notes, pid \in Ids : RestoreItem(id, pid)
    \/ \E id \in Ids : DeleteItem(id)

SpecTree == InitTree /\ [][NextTree]_vars

----------------------------------------------------------------------------
(* SpecInput: the algebra called on any tree value, malformed ones          *)
(* included (dangling children, cycles, shared children, stale flags, no    *)
(* root).  tree is the object the caller passes, as it is after the call;   *)
(* last holds the call, the tree as it was before, and what was returned.   *)

\* The number of child entries, over all children lists, of an input tree.
MaxInputEdges == 2

InputKeys == {ROOT_ID, "A", "B"}

\* hasChildren of the items of an input tree: not there, or set
Flags == {"none", "true", "false"}

InputItem(id, children, flag) ==
    IF flag = "none" THEN [NewItem(id) EXCEPT !.children = children]
    ELSE [id |-> id, children |-> children, absent |-> FALSE,
          hasChildren |-> (flag = "true"), isExpanded |-> FALSE]

\* the orders in which an object can hold some of the keys
KeyOrders ==
    {ks \in UNION {[1..n -> InputKeys] : n \in 0..Cardinality(InputKeys)} :
        \A i, j \in 1..Len(ks) : i # j => ks[i] # ks[j]}

ChildLists == UNION {[1..n -> InputKeys] : n \in 0..MaxInputEdges}

\* the tree holding the keys ks in that order, item i with the children f[i]
InputTree(ks, f, flag) ==
    [rootId |-> ROOT_ID,
     items |-> [i \in 1..Len(ks) |-> InputItem(ks[i], f[i], flag)]]

NoReturn == [rootId |-> "none", items |-> <<>>]

Called(op, id, pid, out, ret, list) ==
    [op |-> op, id |-> id, pid |-> pid, out |-> out,
     before |-> tree, ret |-> ret, list |-> list]

InitInput ==
    /\ \E ks \in KeyOrders, flag \in Flags :
        \E f \in [1..Len(ks) -> ChildLists] :
            /\ tree = InputTree(ks, f, flag)
            /\ Edges(tree) <= MaxInputEdges
    /\ last = NoCall
    /\ store = EmptyStore
    /\ treeStore = DEFAULT_TREE
    /\ sd = Idle
    /\ ed = NoEditor
    /\ idb = EmptyIdb
    /\ sv = NoSave

\* a call is made on an input tree, or on the tree that addItem calls have
\* made of one
Fresh == last.op \in {"none", "addItem"}

\* flattenTree(tree, id): nothing is written
CallFlattenTree(id) ==
    /\ Fresh
    /\ tree' = tree
    /\ last' = Called("flattenTree", id, id, flattenTree(tree, id).err,
                      NoReturn, flattenTree(tree, id).list)
    /\ UNCHANGED <<serverVars, clientVars>>

\* cleanTreeModel(tree): a new object is built, the one passed is only read
CallCleanTreeModel ==
    /\ Fresh
    /\ tree' = tree
    /\ last' = IF cleanTreeModelThrows(tree)
               THEN Called("cleanTreeModel", ROOT_ID, ROOT_ID, "throw",
                           NoReturn, <<>>)
               ELSE Called("cleanTreeModel", ROOT_ID, ROOT_ID, "none",
                           cleanTreeModel(tree), <<>>)
    /\ UNCHANGED <<serverVars, clientVars>>

\* addItem(tree, id, pid) writes into the object it is passed and returns it;
\* the item is written before the parent is looked up
CallAddItem(id, pid) ==
    /\ Fresh
    /\ Edges(tree) < MaxInputEdges
    /\ tree' = addItem(tree, id, pid)
    /\ last' = IF addItemThrows(tree, id, pid)
               THEN Called("addItem", id, pid, "throw", NoReturn, <<>>)
               ELSE Called("addItem", id, pid, "none", tree', <<>>)
    /\ UNCHANGED <<serverVars, clientVars>>

\* removeItem(tree, id) pulls from the object it is passed and returns a
\* deep copy of it
CallRemoveItem(id) ==
    /\ Fresh
    /\ tree' = removeItem(tree, id)
    /\ last' = Called("removeItem", id, id, "none", tree', <<>>)
    /\ UNCHANGED <<serverVars, clientVars>>

\* restoreItem(tree, id, pid): removeItem on the object passed, addItem on
\* the copy removeItem returned
CallRestoreItem(id, pid) ==
    /\ Fresh
    /\ Edges(removeItem(tree, id)) < MaxInputEdges
    /\ tree' = removeItem(tree, id)
    /\ last' = IF restoreItemThrows(tree, id, pid)
               THEN Called("restoreItem", id, pid, "throw", NoReturn, <<>>)
               ELSE Called("restoreItem", id, pid, "none",
                           restoreItem(tree, id, pid), <<>>)
    /\ UNCHANGED <<serverVars, clientVars>>

\* deleteItem(tree, id) works on a deep copy
CallDeleteItem(id) ==
    /\ Fresh
    /\ tree' = tree
    /\ last' = IF deleteItemThrows(tree, id)
               THEN Called("deleteItem", id, id, "throw", NoReturn, <<>>)
               ELSE Called("deleteItem", id, id, "none",
                           deleteItem(tree, id), <<>>)
    /\ UNCHANGED <<serverVars, clientVars>>

NextInput ==
    \/ \E id \in InputKeys : CallFlattenTree(id)
    \/ CallCleanTreeModel
    \/ \E id \in InputKeys, pid \in InputKeys : CallAddItem(id, pid)
    \/ \E id \in InputKeys : CallRemoveItem(id)
    \/ \E id \in InputKeys, pid \in InputKeys : CallRestoreItem(id, pid)
    \/ \E id \in InputKeys : CallDeleteItem(id)

SpecInput == InitInput /\ [][NextInput]_vars

----------------------------------------------------------------------------
(* Spec: the server's endpoints over the object store and the tree store.
   A soft delete is handled in steps (one object of the cascade set at a
   time, then the detach); every other request is one step.  A request
   reads the current time as an input. *)

Contents == {"text"}

\* the instants a request can read as the current time
Times == 1..MaxTime

Title(id) == id

Init ==
    /\ tree = DEFAULT_TREE
    /\ last = NoCall
    /\ store = EmptyStore
    /\ treeStore = DEFAULT_TREE
    /\ sd = Idle
    /\ ed = NoEditor
    /\ idb = EmptyIdb
    /\ sv = NoSave

\* create-note endpoint: the object is written, the id added under pid
CreateNote(id, pid, content, now) ==
    /\ sd.pc = "idle"
    /\ ~hasObject(store, id)
    /\ id \notin Keys(treeStore)
    /\ pid \in Keys(treeStore)
    /\ store' = putObject(store, id, content,
                    jsonToMeta([NoJson EXCEPT
                        !["title"] = Str(Title(id)),
                        !["deleted"] = Num(NOTE_DELETED_NORMAL),
                        !["date"] = Str(Iso(now))]),
                    "text/markdown")
    /\ treeStore' = addItem(treeStore, id, pid)
    /\ sd' = Responded("ok")
    /\ UNCHANGED <<tree, last>>
    /\ UNCHANGED clientVars

\* a cascade that goes to the detach without rewriting any object
cascadeBeginSkipsLoop(id, now) ==
    [Idle EXCEPT !.id = id, !.now = now, !.pc = "detach",
                 !.inTree = ~Item(treeStore, id).absent,
                 !.storeBefore = store, !.treeBefore = treeStore]

\* a cascade that takes a target missing from the tree for a tree item
cascadeBeginQueuesAbsent(id, now) ==
    LET flat == flattenTree(treeStore, id)
        begun == [Idle EXCEPT !.id = id, !.now = now,
                              !.storeBefore = store, !.treeBefore = treeStore]
    IN  IF flat.err # "none" THEN Responded("error")
        ELSE [begun EXCEPT !.pc = "cascade",
                           !.inTree = ~Item(treeStore, id).absent,
                           !.queue = <<id>> \o FlatIds(flat.list),
                           !.items = <<id>> \o FlatIds(flat.list)]

\* cascadeSoftDeleteNotes begins: it reads the tree, resolves the target and
\* builds itemsToSoftDelete; a flattenTree that throws fails the request
cascadeBegin(id, now) ==
    LET mainItem == Item(treeStore, id)
        flat == flattenTree(treeStore, id)
        begun == [Idle EXCEPT !.id = id, !.now = now,
                              !.storeBefore = store, !.treeBefore = treeStore]
    IN  IF mainItem.absent THEN [begun EXCEPT !.pc = "detach"]
        ELSE IF flat.err # "none" THEN Responded("error")
        ELSE [begun EXCEPT !.pc = "cascade", !.inTree = TRUE,
                           !.queue = <<id>> \o FlatIds(flat.list),
                           !.items = <<id>> \o FlatIds(flat.list)]

\* trash endpoint, action 'delete' without permanent
TrashSoftDelete(id, now) ==
    /\ sd.pc = "idle"
    /\ sd' = cascadeBegin(id, now)
    /\ UNCHANGED <<tree, last, store, treeStore>>
    /\ UNCHANGED clientVars

\* notes/[id]/meta endpoint, POST that sets deleted = DELETED on a note
\* that is not deleted yet
MetaSoftDelete(id, now) ==
    /\ sd.pc = "idle"
    /\ hasObject(store, id)
    /\ Deleted(store, id) # Num(NOTE_DELETED_DELETED)
    /\ sd' = cascadeBegin(id, now)
    /\ UNCHANGED <<tree, last, store, treeStore>>
    /\ UNCHANGED clientVars

\* cascadeSoftDeleteNotes: one turn of the loop
SoftDeleteStep ==
    /\ sd.pc = "cascade"
    /\ store' = softDeleteOne(store, Head(sd.queue), sd.now)
    /\ sd' = [sd EXCEPT !.queue = Tail(@),
                        !.pc = IF Tail(sd.queue) = <<>> THEN "detach" ELSE @]
    /\ UNCHANGED <<tree, last, treeStore>>
    /\ UNCHANGED clientVars

\* the caller detaches the target: treeStore.removeItem(id)
SoftDeleteDetach ==
    /\ sd.pc = "detach"
    /\ treeStore' = removeItem(treeStore, sd.id)
    /\ sd' = Responded("ok")
    /\ UNCHANGED <<tree, last, store>>
    /\ UNCHANGED clientVars

\* trash endpoint, action 'delete' with permanent = true
HardDelete(id) ==
    /\ sd.pc = "idle"
    /\ IF flattenTree(treeStore, id).err # "none"
       THEN /\ UNCHANGED <<store, treeStore>>
            /\ sd' = Responded("error")
       ELSE /\ store' = hardDeleteObjects(store, treeStore, id)
            /\ treeStore' = deleteItem(treeStore, id)
            /\ sd' = Responded("ok")
    /\ UNCHANGED <<tree, last>>
    /\ UNCHANGED clientVars

\* trash endpoint, action 'restore'
RestoreNote(id, parentId, now) ==
    /\ sd.pc = "idle"
    /\ IF copyObjectThrows(store, id)
       THEN /\ UNCHANGED <<store, treeStore>>
            /\ sd' = Responded("error")
       ELSE /\ store' = copyObject(store, id,
                            restoreMeta(getObjectMeta(store, id), now),
                            "text/markdown")
            /\ IF restoreItemThrows(treeStore, id, parentId)
               THEN /\ treeStore' = treeStore
                    /\ sd' = Responded("error")
               ELSE /\ treeStore' = restoreItem(treeStore, id, parentId)
                    /\ sd' = Responded("ok")
    /\ UNCHANGED <<tree, last>>
    /\ UNCHANGED clientVars

\* notes/[id] endpoint, DELETE
DeleteNote(id, permanent, now) ==
    /\ sd.pc = "idle"
    /\ IF ~hasObject(store, id)
       THEN /\ UNCHANGED <<store, treeStore>>
            /\ sd' = Responded("NotFound")
       ELSE /\ sd' = Responded("ok")
            /\ store' =
                IF permanent THEN deleteObject(store, id)
                ELSE putObject(store, id, getObject(store, id),
                        [getObjectMeta(store, id) EXCEPT
                            !["deletedAt"] = strCompress(Iso(now)),
                            !["date"] = strCompress(Iso(now))],
                        IF store[id].ctype # "" THEN store[id].ctype
                        ELSE "text/markdown")
            /\ treeStore' = removeItem(treeStore, id)
    /\ UNCHANGED <<tree, last>>
    /\ UNCHANGED clientVars

Next ==
    \/ \E id \in Notes, pid \in Ids, content \in Contents, now \in Times :
            CreateNote(id, pid, content, now)
    \/ \E id \in Notes, now \in Times : TrashSoftDelete(id, now)
    \/ \E id \in Notes, now \in Times : MetaSoftDelete(id, now)
    \/ SoftDeleteStep
    \/ SoftDeleteDetach
    \/ \E id \in Notes : HardDelete(id)
    \/ \E id \in Notes, parentId \in Ids, now \in Times :
            RestoreNote(id, parentId, now)
    \/ \E id \in Notes, permanent \in BOOLEAN, now \in Times :
            DeleteNote(id, permanent, now)

Spec == Init /\ [][Next]_vars

----------------------------------------------------------------------------
(* SpecDesync: the same endpoints, started on a tree store and an object    *)
(* store that disagree: every note has its item in the tree, and any of     *)
(* them may be without its object (the DELETE handler deletes the object    *)
(* before it detaches the id, and the object store can be written apart     *)
(* from the tree).                                                          *)

\* the metadata of a note as the create-note endpoint writes it
createdMeta(id, now) ==
    jsonToMeta([NoJson EXCEPT
        !["title"] = Str(Title(id)),
        !["deleted"] = Num(NOTE_DELETED_NORMAL),
        !["date"] = Str(Iso(now))])

\* the store in which exactly the notes of S have their object
StoreOf(S) ==
    [n \in Notes |->
        IF n \in S
        THEN [absent |-> FALSE, content |-> "text",
              meta |-> createdMeta(n, 1), ctype |-> "text/markdown"]
        ELSE NoObject]

InitDesync ==
    /\ tree = DEFAULT_TREE
    /\ last = NoCall
    /\ sd = Idle
    /\ ed = NoEditor
    /\ idb = EmptyIdb
    /\ sv = NoSave
    /\ \E pB \in {ROOT_ID, "A"}, pC \in {ROOT_ID, "A", "B"} :
        treeStore = addItem(addItem(addItem(DEFAULT_TREE, "A", ROOT_ID),
                                    "B", pB), "C", pC)
    /\ \E S \in SUBSET Notes : store = StoreOf(S)

SpecDesync == InitDesync /\ [][Next]_vars

----------------------------------------------------------------------------
(* SpecClient: the editor of one open note (useEditor over useNote), its
   persisted drafts and note cache, and one manual save at a time against a
   server whose answers are inputs. *)

\* The number of save requests sent before the editor is again without a
\* save in progress.
MaxRequests == 2

\* note contents and titles the user types and the server echoes
Bodies == {"", "\n", "a"}
Titles == {"", "t"}

\* the editor as it mounts: useState('') and useState(false), the [note]
\* effect pending; an existing note comes from fetchNote (and is cached),
\* a new one from initNote
InitClient ==
    /\ tree = DEFAULT_TREE
    /\ last = NoCall
    /\ store = EmptyStore
    /\ treeStore = DEFAULT_TREE
    /\ sd = Idle
    /\ \E isNew \in BOOLEAN, c \in Bodies \ {""}, t \in Titles :
        LET note == IF isNew THEN NoteModel(Some("\n"), Some(""))
                    ELSE NoteModel(Some(c), Some(t))
        IN  /\ ed = [note |-> note, localContent |-> "", localTitle |-> "",
                     hasLocalChanges |-> FALSE, isNew |-> isNew,
                     reload |-> TRUE, toast |-> "none"]
            /\ idb = [draftContent |-> None, draftTitle |-> None,
                      cache |-> IF isNew THEN None ELSE Some(note)]
    /\ sv = NoSave

\* loadDraft: the editor after it
loadDraft(e, db) ==
    IF db.draftContent # None \/ db.draftTitle # None
    THEN [e EXCEPT
            !.localContent = Coalesce(db.draftContent, e.note.content),
            !.localTitle = Coalesce(db.draftTitle, e.note.title),
            !.hasLocalChanges = TRUE,
            !.reload = FALSE]
    ELSE [e EXCEPT
            !.localContent = OrElse(e.note.content, ""),
            !.localTitle = OrElse(e.note.title, ""),
            !.hasLocalChanges = FALSE,
            !.reload = FALSE]

\* the [note] effect: loadDraft
LoadDraft ==
    /\ ed.reload
    /\ ed' = loadDraft(ed, idb)
    /\ UNCHANGED <<idb, sv>>
    /\ UNCHANGED <<treeVars, serverVars>>

\* a content edit that leaves the Dirty flag alone
onEditorChangeKeepsFlag(e, newContent) == [e EXCEPT !.localContent = newContent]

onEditorChange(e, newContent) ==
    [e EXCEPT !.localContent = newContent, !.hasLocalChanges = TRUE]

OnEditorChange(newContent) ==
    /\ ed' = onEditorChange(ed, newContent)
    /\ idb' = [idb EXCEPT !.draftContent = Some(newContent)]
    /\ UNCHANGED sv
    /\ UNCHANGED <<treeVars, serverVars>>

onTitleChange(e, title) ==
    [e EXCEPT !.localTitle = title, !.hasLocalChanges = TRUE]

OnTitleChange(title) ==
    /\ ed' = onTitleChange(ed, title)
    /\ idb' = [idb EXCEPT !.draftTitle = Some(title)]
    /\ UNCHANGED sv
    /\ UNCHANGED <<treeVars, serverVars>>

\* noteCacheInstance.removeItem of the two draft keys
removeDrafts(db) == [db EXCEPT !.draftContent = None, !.draftTitle = None]

\* noteCache.removeItem of the two draft keys: noteCache keeps its entries
\* in noteCacheInstance
noteCacheRemoveDrafts(db) == removeDrafts(db)

\* a discard that forgets the title draft
discardKeepsTitleDraft(e, db) ==
    [ed |-> [e EXCEPT !.localContent = OrElse(e.note.content, ""),
                      !.localTitle = OrElse(e.note.title, ""),
                      !.hasLocalChanges = FALSE,
                      !.toast = "discarded"],
     idb |-> [db EXCEPT !.draftContent = None]]

\* discardChanges: the editor and the persisted store after it
discardChanges(e, db) ==
    [ed |-> [e EXCEPT !.localContent = OrElse(e.note.content, ""),
                      !.localTitle = OrElse(e.note.title, ""),
                      !.hasLocalChanges = FALSE,
                      !.toast = "discarded"],
     idb |-> noteCacheRemoveDrafts(db)]

DiscardChanges ==
    /\ ed' = discardChanges(ed, idb).ed
    /\ idb' = discardChanges(ed, idb).idb
    /\ UNCHANGED sv
    /\ UNCHANGED <<treeVars, serverVars>>

\* toast(text, type): the notification shown, and the save's own history
Notify(e, kind) == [e EXCEPT !.toast = kind]
Logged(s, kinds) == [s EXCEPT !.log = @ \o kinds]

\* setNote: the [note] effect will run again
setNote(e, note) == [e EXCEPT !.note = note, !.reload = TRUE]

\* saveNote begins (the save command is offered when there are local
\* changes); on the update path updateNote sets the optimistic note
SaveStart ==
    /\ sv.pc = "idle"
    /\ ed.hasLocalChanges
    /\ sv' = [NoSave EXCEPT
                !.pc = IF ed.isNew THEN "create" ELSE "update",
                !.sent = NoteModel(Some(ed.localContent), Some(ed.localTitle)),
                !.originalNote = ed.note,
                !.out = "pending",
                !.log = <<"saving">>,
                !.requests = 1]
    /\ ed' = IF ed.isNew THEN Notify(ed, "saving")
             ELSE Notify(setNote(ed, NoteModel(None, Some(ed.localTitle))),
                         "saving")
    /\ UNCHANGED idb
    /\ UNCHANGED <<treeVars, serverVars>>

\* The save command (Ctrl+S, the save button) while updateNote's request
\* is in flight: saveNote runs again, its updateNote aborts the request in
\* flight and sends a new one with the values of now; the first run ends
\* in updateNote's two catch blocks.  requests counts the requests sent
\* since the editor was last without a save.
SaveAgain ==
    /\ sv.pc = "update"
    /\ ed.hasLocalChanges
    /\ sv.requests < MaxRequests
    /\ sv' = [Logged(sv, <<"saving", "error", "error">>) EXCEPT
                !.sent = NoteModel(Some(ed.localContent), Some(ed.localTitle)),
                !.originalNote = ed.note,
                !.requests = @ + 1]
    /\ ed' = Notify(setNote(ed, IF idb.cache # None THEN idb.cache[1]
                                ELSE sv.originalNote),
                    "error")
    /\ UNCHANGED idb
    /\ UNCHANGED <<treeVars, serverVars>>

\* updateNote: mutate throws (a request fails or is aborted)
UpdateFails ==
    /\ sv.pc = "update"
    /\ ed' = Notify(setNote(ed, IF idb.cache # None THEN idb.cache[1]
                                ELSE sv.originalNote),
                    "error")
    /\ sv' = [Logged(sv, <<"error", "error">>) EXCEPT
                !.pc = "idle", !.out = "failed"]
    /\ UNCHANGED idb
    /\ UNCHANGED <<treeVars, serverVars>>

\* updateNote: mutate returns the server's note
UpdateResponds(content, title) ==
    /\ sv.pc = "update"
    /\ LET validApiResult == NoteModel(Some(content), Some(title))
       IN  IF Some(title) # sv.sent.title
           THEN /\ ed' = Notify(setNote(ed, sv.originalNote), "error")
                /\ sv' = [Logged(sv, <<"error">>) EXCEPT
                            !.pc = "idle", !.out = "failed", !.mismatch = TRUE]
                /\ idb' = idb
           ELSE /\ ed' = Notify(setNote(ed, validApiResult), "updated")
                /\ sv' = [Logged(sv, <<"updated">>) EXCEPT
                            !.pc = "validate",
                            !.saveResult = Some(validApiResult)]
                /\ idb' = [idb EXCEPT !.cache = Some(validApiResult)]
    /\ UNCHANGED <<treeVars, serverVars>>

\* createNote: create throws; createNote returns null and saveNote goes on
CreateFails ==
    /\ sv.pc = "create"
    /\ ed' = [Notify(ed, "error") EXCEPT !.isNew = FALSE]
    /\ sv' = [Logged(sv, <<"error">>) EXCEPT
                !.pc = "validate", !.saveResult = None, !.out = "failed"]
    /\ UNCHANGED idb
    /\ UNCHANGED <<treeVars, serverVars>>

\* createNote: create returns the server's note
CreateResponds(content, title) ==
    /\ sv.pc = "create"
    /\ IF Some(title) # sv.sent.title \/ Some(content) # sv.sent.content
       THEN /\ ed' = Notify(ed, "error")
            /\ sv' = [Logged(sv, <<"error">>) EXCEPT
                        !.pc = "idle", !.out = "failed", !.mismatch = TRUE]
            /\ idb' = idb
       ELSE LET result ==
                    NoteModel(Some(OrElse(Some(content),
                                          OrElse(sv.sent.content, "\n"))),
                              Some(title))
            IN  /\ ed' = [Notify(setNote(ed, result), "created") EXCEPT
                            !.isNew = FALSE]
                /\ sv' = [Logged(sv, <<"created">>) EXCEPT
                            !.pc = "validate", !.saveResult = Some(result)]
                /\ idb' = [idb EXCEPT !.cache = Some(result)]
    /\ UNCHANGED <<treeVars, serverVars>>

\* saveNote: does the result pass the validation of content and title
validates(s) ==
    \/ s.saveResult = None
    \/ /\ s.saveResult[1].content = s.sent.content
       /\ s.saveResult[1].title = s.sent.title

\* saveNote, after the validation: the flag and the drafts are cleared
clearAfterSave(e, db) ==
    [ed |-> [e EXCEPT !.hasLocalChanges = FALSE], idb |-> removeDrafts(db)]

\* saveNote after createNote / updateNote returned something other than
\* undefined: validate, then clear and call initTree
SaveValidate ==
    /\ sv.pc = "validate"
    /\ IF ~validates(sv)
       THEN /\ ed' = Notify(ed, "error")
            /\ sv' = [Logged(sv, <<"error">>) EXCEPT
                        !.pc = "idle", !.out = "failed", !.mismatch = TRUE]
            /\ idb' = idb
       ELSE /\ ed' = clearAfterSave(ed, idb).ed
            /\ idb' = clearAfterSave(ed, idb).idb
            /\ sv' = [Logged(sv, <<"initTree">>) EXCEPT !.pc = "refresh"]
    /\ UNCHANGED <<treeVars, serverVars>>

\* a save that tells of its success before the tree is refreshed
saveEndsEarly(s, treeLoaded) ==
    [s EXCEPT !.pc = "idle",
              !.out = IF @ = "failed" THEN @ ELSE "ok",
              !.log = SubSeq(@, 1, Len(@) - 1) \o <<"saved", "initTree">>]

\* saveNote: initTree has returned (with or without its own error
\* notification); the success notification
saveEnds(s, treeLoaded) ==
    [Logged(s, IF treeLoaded THEN <<"saved">> ELSE <<"treeError", "saved">>)
        EXCEPT !.pc = "idle", !.out = IF @ = "failed" THEN @ ELSE "ok"]

SaveFinish(treeLoaded) ==
    /\ sv.pc = "refresh"
    /\ sv' = saveEnds(sv, treeLoaded)
    /\ ed' = Notify(ed, "saved")
    /\ UNCHANGED idb
    /\ UNCHANGED <<treeVars, serverVars>>

\* saveNote: initTree throws (its fetchTree failed); saveNote's catch shows
\* the failure and returns false
SaveRefreshFails ==
    /\ sv.pc = "refresh"
    /\ sv' = [Logged(sv, <<"error">>) EXCEPT !.pc = "idle", !.out = "failed"]
    /\ ed' = Notify(ed, "error")
    /\ UNCHANGED idb
    /\ UNCHANGED <<treeVars, serverVars>>

NextClient ==
    \/ LoadDraft
    \/ \E newContent \in Bodies : OnEditorChange(newContent)
    \/ \E title \in Titles : OnTitleChange(title)
    \/ DiscardChanges
    \/ SaveStart
    \/ SaveAgain
    \/ UpdateFails
    \/ \E content \in Bodies, title \in Titles : UpdateResponds(content, title)
    \/ CreateFails
    \/ \E content \in Bodies, title \in Titles : CreateResponds(content, title)
    \/ SaveValidate
    \/ \E treeLoaded \in BOOLEAN : SaveFinish(treeLoaded)
    \/ SaveRefreshFails

SpecClient == InitClient /\ [][NextClient]_vars

----------------------------------------------------------------------------
(* Tree shape predicates *)

\* how many times id occurs in the children lists of t
Occurrences(t, id) ==
    LET RECURSIVE occ(_)
        occ(items) ==
            IF items = <<>> THEN 0
            ELSE Count(Head(items).children, id) + occ(Tail(items))
    IN  occ(t.items)

\* the ids reached from the ids of S in at most n steps along children lists
RECURSIVE ReachIn(_, _, _)
ReachIn(t, S, n) ==
    IF n = 0 THEN S
    ELSE ReachIn(t, S \cup UNION {Range(Item(t, k).children) : k \in S}, n - 1)

\* the proper descendants of id in t
Descendants(t, id) ==
    ReachIn(t, Range(Item(t, id).children), Cardinality(Ids))

\* the subsequence of s of the elements in S
RECURSIVE Keep(_, _)
Keep(s, S) ==
    IF s = <<>> THEN <<>>
    ELSE IF Head(s) \in S THEN <<Head(s)>> \o Keep(Tail(s), S)
    ELSE Keep(Tail(s), S)

\* the keys of t in insertion order
KeySeq(t) == [i \in 1..Len(t.items) |-> t.items[i].id]

----------------------------------------------------------------------------
(* SpecInitTree: initTree of useNoteTree (libs/web/state/tree.ts), run      *)
(* again and again.  tree is the tree in React state, idb the tree          *)
(* structure in uiCache, treeStore the structure the server holds, sv the   *)
(* run of initTree.  What the requests answer is an input.                  *)

\* The number of child entries of a cached or served tree structure.
MaxLoadEdges == 1

\* initTree is not running; nothing has run yet
NoInit == [pc |-> "idle", treeToSet |-> None, initLoaded |-> FALSE,
           toast |-> "none", out |-> "none", source |-> "none",
           inputTree |-> None, noteDataMap |-> {}]

\* uiCache under TREE_CACHE_KEY
TreeCache(entry) == [treeCache |-> entry]

\* {...originalItem, data: fetchedData}
WithData(item, data) ==
    [k \in DOMAIN item \cup {"data"} |->
        IF k = "data" THEN data ELSE item[k]]

\* fetchNotes(inputTree), fetchNote answering with a note for the ids of
\* fetched and with nothing (or an error) for the others: the root's item
\* and the items with a note are kept, in the order of the keys
RECURSIVE newValidItems(_, _)
newValidItems(items, fetched) ==
    IF items = <<>> THEN <<>>
    ELSE LET originalItem == Head(items)
             rest == newValidItems(Tail(items), fetched)
         IN  IF originalItem.id \in fetched /\ originalItem.id # ROOT_ID
             THEN <<WithData(originalItem, Some(originalItem.id))>> \o rest
             ELSE IF originalItem.id = ROOT_ID
                  THEN <<WithData(originalItem, None)>> \o rest
                  ELSE rest

\* a hydration that keeps every children list as it was
fetchNotesKeepsChildren(inputTree, fetched) ==
    [inputTree EXCEPT !.items = newValidItems(inputTree.items, fetched)]

\* children.filter(childId => newValidItems[childId] !== undefined)
fetchNotes(inputTree, fetched) ==
    LET valid == newValidItems(inputTree.items, fetched)
        ids == {valid[i].id : i \in 1..Len(valid)}
    IN  [inputTree EXCEPT
            !.items = [i \in 1..Len(valid) |->
                        [valid[i] EXCEPT !.children = Keep(@, ids)]]]

\* fetcher's request: the response's body; nothing when the request was
\* aborted; the error thrown again otherwise
RequestOutcomes == {"json", "aborted", "throws"}

InitInitTree ==
    /\ tree = DEFAULT_TREE
    /\ last = NoCall
    /\ store = EmptyStore
    /\ sd = Idle
    /\ ed = NoEditor
    /\ sv = NoInit
    /\ \E ks \in KeyOrders : \E f \in [1..Len(ks) -> ChildLists] :
            /\ treeStore = InputTree(ks, f, "none")
            /\ Edges(treeStore) <= MaxLoadEdges
    /\ \/ idb = TreeCache(None)
       \/ \E ks \in KeyOrders : \E f \in [1..Len(ks) -> ChildLists] :
            /\ idb = TreeCache(Some(InputTree(ks, f, "none")))
            /\ Edges(idb.treeCache[1]) <= MaxLoadEdges

\* setInitLoaded(false) and uiCache.getItem
InitTreeStart ==
    /\ sv.pc = "idle"
    /\ sv' = [NoInit EXCEPT !.pc = "cache"]
    /\ UNCHANGED <<tree, last, idb, ed>>
    /\ UNCHANGED serverVars

\* the cached structure, when there is one, is cleaned and hydrated
InitTreeCache(fetched) ==
    /\ sv.pc = "cache"
    /\ IF idb.treeCache = None
       THEN /\ sv' = [sv EXCEPT !.pc = "server"]
            /\ idb' = idb
       ELSE LET cachedTreeStructure == idb.treeCache[1]
                cleanedCachedTree == cleanTreeModel(cachedTreeStructure)
                hydratedCache == fetchNotes(cleanedCachedTree, fetched)
            IN  IF \/ cleanTreeModelThrows(cachedTreeStructure)
                   \/ Item(cleanedCachedTree, ROOT_ID).absent
                   \/ Item(hydratedCache, ROOT_ID).absent
                THEN /\ sv' = [sv EXCEPT !.pc = "server"]
                     /\ idb' = TreeCache(None)
                ELSE /\ sv' = [sv EXCEPT !.pc = "set",
                                         !.treeToSet = Some(hydratedCache),
                                         !.source = "cache",
                                         !.inputTree = Some(cleanedCachedTree),
                                         !.noteDataMap = fetched \cap Keys(cleanedCachedTree)]
                     /\ idb' = idb
    /\ UNCHANGED <<tree, last, ed>>
    /\ UNCHANGED serverVars

\* fetchTree, then the served structure cleaned and hydrated
InitTreeServer(outcome, fetched) ==
    /\ sv.pc = "server"
    /\ IF outcome = "throws"
       THEN /\ sv' = [sv EXCEPT !.pc = "idle", !.out = "thrown"]
            /\ idb' = idb
       ELSE IF outcome = "aborted"
       THEN /\ sv' = [sv EXCEPT !.pc = "set", !.toast = "error"]
            /\ idb' = idb
       ELSE LET serverTreeStructure == treeStore
                cleanedServerTree == cleanTreeModel(serverTreeStructure)
                hydratedServerTree == fetchNotes(cleanedServerTree, fetched)
            IN  IF \/ cleanTreeModelThrows(serverTreeStructure)
                   \/ Item(cleanedServerTree, ROOT_ID).absent
                   \/ Item(hydratedServerTree, ROOT_ID).absent
                THEN /\ sv' = [sv EXCEPT !.pc = "set", !.toast = "error"]
                     /\ idb' = idb
                ELSE /\ sv' = [sv EXCEPT !.pc = "set",
                                         !.treeToSet = Some(hydratedServerTree),
                                         !.source = "server",
                                         !.inputTree = Some(cleanedServerTree),
                                         !.noteDataMap = fetched \cap Keys(cleanedServerTree)]
                     /\ idb' = TreeCache(Some(cleanedServerTree))
    /\ UNCHANGED <<tree, last, ed>>
    /\ UNCHANGED serverVars

\* setTree(treeToSet or DEFAULT_TREE), setInitLoaded(true)
InitTreeSet ==
    /\ sv.pc = "set"
    /\ tree' = IF sv.treeToSet # None THEN sv.treeToSet[1] ELSE DEFAULT_TREE
    /\ sv' = [sv EXCEPT !.pc = "idle", !.initLoaded = TRUE, !.out = "done"]
    /\ UNCHANGED <<last, idb, ed>>
    /\ UNCHANGED serverVars

\* the tree structure on the server changes between two runs
ServerTreeGrows(id, pid) ==
    /\ sv.pc = "idle"
    /\ Edges(treeStore) < MaxLoadEdges
    /\ ~addItemThrows(treeStore, id, pid)
    /\ treeStore' = addItem(treeStore, id, pid)
    /\ UNCHANGED <<store, sd>>
    /\ UNCHANGED <<treeVars, clientVars>>

NextInitTree ==
    \/ InitTreeStart
    \/ \E fetched \in SUBSET (InputKeys \ {ROOT_ID}) : InitTreeCache(fetched)
    \/ \E outcome \in RequestOutcomes, fetched \in SUBSET (InputKeys \ {ROOT_ID}) :
            InitTreeServer(outcome, fetched)
    \/ InitTreeSet
    \/ \E id \in InputKeys \ {ROOT_ID}, pid \in InputKeys :
            ServerTreeGrows(id, pid)

SpecInitTree == InitInitTree /\ [][NextInitTree]_vars

----------------------------------------------------------------------------
(* SpecNotes: the note endpoints (api/notes/[id] GET and POST,              *)
(* api/notes/[id]/meta POST) over the object store, one request at a time.  *)
(* last is the response of the last request.                                *)

\* the contents a request body carries and an object holds
NoteContents == {"", "\n", "text"}

\* a response that carries the content as it is stored
orNothing(content) == content

\* content || '\n'
orNewline(content) == IF content = "" THEN "\n" ELSE content

\* getNote throws NOT_FOUND: !content && !meta
getNoteThrows(st, id) == getObject(st, id) = "" /\ getObjectMeta(st, id) = NoMeta

\* getNote: { id, content: content || '\n', ...jsonMeta }
getNote(st, id) ==
    [id |-> id,
     content |-> Some(orNewline(getObject(st, id))),
     meta |-> metaToJson(getObjectMeta(st, id))]

\* the response of the meta POST handler
responseNote(st, id, finalUpdatedNoteMetaJson) ==
    [id |-> id,
     content |-> Some(orNewline(getObject(st, id))),
     meta |-> finalUpdatedNoteMetaJson]

NoNote == [id |-> "none", content |-> None, meta |-> NoJson]

Reply(op, id, out, note) == [op |-> op, id |-> id, out |-> out, note |-> note]

\* the notes the requests are about: a note and its child
Requested == {"A", "B"}

\* the objects a request can find: none, or a content with the metadata of
\* a created note or without any metadata row
InitNotes ==
    /\ tree = DEFAULT_TREE
    /\ last = NoCall
    /\ sd = Idle
    /\ ed = NoEditor
    /\ idb = EmptyIdb
    /\ sv = NoSave
    /\ treeStore = addItem(addItem(DEFAULT_TREE, "A", ROOT_ID), "B", "A")
    /\ \E S \in SUBSET Requested, c \in NoteContents, bare \in SUBSET Requested :
        store = [n \in Notes |->
                    IF n \notin S THEN NoObject
                    ELSE [StoreOf(S)[n] EXCEPT
                            !.content = c,
                            !.meta = IF n \in bare THEN NoMeta ELSE @]]

\* GET api/notes/[id]
FetchNote(id) ==
    /\ last' = IF getNoteThrows(store, id)
               THEN Reply("fetchNote", id, "NotFound", NoNote)
               ELSE Reply("fetchNote", id, "ok", getNote(store, id))
    /\ UNCHANGED <<tree, store, treeStore, sd>>
    /\ UNCHANGED clientVars

\* putObject(path, content, { meta }): the metadata rows are replaced when
\* metadata is given
putContent(st, id, content, oldMeta) ==
    putObject(st, id, content,
              IF oldMeta = NoMeta THEN getObjectMeta(st, id) ELSE oldMeta,
              "text/markdown")

\* POST api/notes/[id]: an empty content is copied to a backup first, which
\* throws when there is no object to copy
UpdateContent(id, content, now) ==
    LET oldMeta == IF getObjectMeta(store, id) = NoMeta THEN NoMeta
                   ELSE [getObjectMeta(store, id) EXCEPT
                            !["date"] = strCompress(Iso(now))]
        written == putContent(store, id, content, oldMeta)
    IN  /\ IF content = "" /\ copyObjectThrows(store, id)
           THEN /\ store' = store
                /\ last' = Reply("updateContent", id, "error", NoNote)
           ELSE /\ store' = written
                /\ last' = IF getNoteThrows(written, id)
                           THEN Reply("updateContent", id, "NotFound", NoNote)
                           ELSE Reply("updateContent", id, "ok",
                                      getNote(written, id))
        /\ UNCHANGED <<tree, treeStore, sd>>
        /\ UNCHANGED clientVars

\* cascadeSoftDeleteNotes run to its end
RECURSIVE softDeleteAll(_, _, _)
softDeleteAll(st, itemsToSoftDelete, now) ==
    IF itemsToSoftDelete = <<>> THEN st
    ELSE softDeleteAll(softDeleteOne(st, Head(itemsToSoftDelete), now),
                       Tail(itemsToSoftDelete), now)

cascadeSoftDeleteNotesThrows(t, id) ==
    ~Item(t, id).absent /\ flattenTree(t, id).err # "none"

cascadeSoftDeleteNotes(st, t, id, now) ==
    IF Item(t, id).absent THEN st
    ELSE softDeleteAll(st, <<id>> \o FlatIds(flattenTree(t, id).list), now)

\* { ...oldMetaJson, ...req.body, date }
newMetaJson(oldMetaJson, body, now) ==
    [k \in MetaKeys |->
        IF k = "date" THEN Str(Iso(now))
        ELSE IF body[k] # Nil THEN body[k]
        ELSE oldMetaJson[k]]

\* the request bodies of the meta POST: a title, a deleted flag, or both
MetaBodies ==
    {[NoJson EXCEPT !["title"] = t, !["deleted"] = d] :
        t \in {Nil, Str("t")},
        d \in {Nil, Num(NOTE_DELETED_NORMAL), Num(NOTE_DELETED_DELETED)}}

\* POST api/notes/[id]/meta
UpdateMeta(id, body, now) ==
    LET oldMetaS3 == getObjectMeta(store, id)
        oldMetaJson == metaToJson(oldMetaS3)
        isSoftDeleteRequest ==
            /\ body["deleted"] = Num(NOTE_DELETED_DELETED)
            /\ oldMetaJson["deleted"] # Num(NOTE_DELETED_DELETED)
        cascaded == cascadeSoftDeleteNotes(store, treeStore, id, now)
        unDeleting ==
            /\ body["deleted"] = Num(NOTE_DELETED_NORMAL)
            /\ oldMetaJson["deleted"] = Num(NOTE_DELETED_DELETED)
        merged == newMetaJson(oldMetaJson, body, now)
        copied == copyObject(store, id,
                             Merge(oldMetaS3, jsonToMeta(merged)),
                             "text/markdown")
    IN  /\ IF ~hasObject(store, id)
           THEN /\ UNCHANGED <<store, treeStore>>
                /\ last' = Reply("updateMeta", id, "NotFound", NoNote)
           ELSE IF isSoftDeleteRequest
           THEN IF cascadeSoftDeleteNotesThrows(treeStore, id)
                THEN /\ UNCHANGED <<store, treeStore>>
                     /\ last' = Reply("updateMeta", id, "error", NoNote)
                ELSE /\ store' = cascaded
                     /\ treeStore' = removeItem(treeStore, id)
                     /\ last' = Reply("updateMeta", id, "ok",
                                  responseNote(cascaded, id,
                                      metaToJson(getObjectMeta(cascaded, id))))
           ELSE IF unDeleting /\ restoreItemThrows(treeStore, id, ROOT_ID)
           THEN /\ UNCHANGED <<store, treeStore>>
                /\ last' = Reply("updateMeta", id, "error", NoNote)
           ELSE /\ treeStore' = IF unDeleting
                                THEN restoreItem(treeStore, id, ROOT_ID)
                                ELSE treeStore
                /\ store' = copied
                /\ last' = Reply("updateMeta", id, "ok",
                                 responseNote(copied, id, merged))
        /\ UNCHANGED <<tree, sd>>
        /\ UNCHANGED clientVars

NextNotes ==
    \/ \E id \in Requested : FetchNote(id)
    \/ \E id \in Requested, content \in NoteContents, now \in Times :
            UpdateContent(id, content, now)
    \/ \E id \in Requested, body \in MetaBodies, now \in Times :
            UpdateMeta(id, body, now)

SpecNotes == InitNotes /\ [][NextNotes]_vars

----------------------------------------------------------------------------
(* SpecRequests: the client's note requests (libs/web/api/fetcher.ts,       *)
(* api/note.ts, state/note.ts, components/container/edit-container.tsx).    *)
(* useNote holds three fetchers, one for find, one for create and one for   *)
(* mutate.  sv is the requests made through each, last the calls of the     *)
(* page (a note load, a creation, an update), tree the tree in memory, idb  *)
(* the ids noteCache has an entry for, treeStore the notes the server has.   *)
(* Whether a request is answered or fails is an input.                      *)

\* The number of loads, creations and updates the page starts.
MaxCalls == 3

\* a request made through a fetcher: its AbortController's signal, and
\* what request() gave: "json", "throws", "aborted" (undefined)
Request(call, kind) ==
    [call |-> call, kind |-> kind, aborted |-> FALSE, res |-> "pending"]

NoRequests == [find |-> <<>>, create |-> <<>>, mutate |-> <<>>]

\* abortRef.current?.abort(): the controller of the fetcher's last request
abort(reqs) ==
    IF reqs = <<>> \/ reqs[Len(reqs)].res # "pending" THEN reqs
    ELSE [reqs EXCEPT ![Len(reqs)].aborted = TRUE]

\* request(): a new controller, which takes the last one's place in abortRef
request(reqs, call, kind) == Append(reqs, Request(call, kind))

\* what request() can give: undefined when the signal is aborted
Answers(req) == IF req.aborted THEN {"aborted"} ELSE {"json", "throws"}

\* the request has been answered
Settle(reqs, k, res) == [reqs EXCEPT ![k].res = res]

\* a call of the page: body is the keys of the change an update carries
Op(op, id, pc, body) ==
    [op |-> op, id |-> id, pc |-> pc, req |-> 0, out |-> "none",
     body |-> body]

\* noteCache
NoteCache(ids) == [notes |-> ids]

\* an id for every new note, whatever the tree holds
genNewIdAny(t) == Notes

\* genNewId: genId() again and again while the tree has the id
genNewId(t) == {newId \in Notes : Item(t, newId).absent}

\* mutate: the content request is made when the body has a content
mutateSendsContent(updatedBody) == "content" \in updatedBody

\* mutate: metaData is the body without its content
mutateSendsMeta(updatedBody) == updatedBody \ {"content"} # {}

\* a mutate that sends the metadata first
mutateFirstMeta(reqs, call, updatedBody) == request(reqs, call, "meta")

\* mutate, up to its first request
mutateFirst(reqs, call, updatedBody) ==
    IF mutateSendsContent(updatedBody) THEN request(reqs, call, "content")
    ELSE IF mutateSendsMeta(updatedBody) THEN request(reqs, call, "meta")
    ELSE reqs

InitRequests ==
    /\ tree \in {DEFAULT_TREE, addItem(DEFAULT_TREE, "A", ROOT_ID)}
    /\ \E ids \in SUBSET (Keys(tree) \ {ROOT_ID}) : idb = NoteCache(ids)
    /\ last = <<>>
    /\ sv = NoRequests
    /\ store = EmptyStore
    /\ treeStore = tree
    /\ sd = Idle
    /\ ed = NoEditor

\* the route changes to a note: abortFindNote(), then loadNoteById, which
\* awaits noteCache.getItem
Navigate(id) ==
    /\ Len(last) < MaxCalls
    /\ sv' = [sv EXCEPT !.find = abort(@)]
    /\ last' = Append(last, Op("load", id, "cache", {}))
    /\ UNCHANGED <<tree, idb, ed>>
    /\ UNCHANGED serverVars

\* the route changes to /new: abortFindNote(), then genNewId() and
\* initNote for the new id
NavigateNew(newId) ==
    /\ Len(last) < MaxCalls
    /\ newId \in genNewId(tree)
    /\ sv' = [sv EXCEPT !.find = abort(@)]
    /\ last' = Append(last, Op("create", newId, "chosen", {}))
    /\ UNCHANGED <<tree, idb, ed>>
    /\ UNCHANGED serverVars

\* fetchNote after the cache answered: the cached note, or find(id)
LoadCache(i) ==
    /\ last[i].op = "load" /\ last[i].pc = "cache"
    /\ IF last[i].id \in idb.notes
       THEN /\ last' = [last EXCEPT ![i].pc = "done", ![i].out = "shown"]
            /\ sv' = sv
       ELSE /\ sv' = [sv EXCEPT !.find = request(@, i, "find")]
            /\ last' = [last EXCEPT ![i].pc = "find",
                                    ![i].req = Len(sv.find) + 1]
    /\ UNCHANGED <<tree, idb, ed>>
    /\ UNCHANGED serverVars

\* find's request is answered: fetchNote and loadNoteById go on
LoadResponds(i, res) ==
    /\ last[i].op = "load" /\ last[i].pc = "find"
    /\ res \in Answers(sv.find[last[i].req])
    /\ res = "json" => ~Item(treeStore, last[i].id).absent
    /\ sv' = [sv EXCEPT !.find = Settle(@, last[i].req, res)]
    /\ last' = [last EXCEPT ![i].pc = "done",
                            ![i].out = IF res = "json" THEN "shown"
                                       ELSE "error"]
    /\ idb' = IF res = "json" THEN NoteCache(idb.notes \cup {last[i].id})
              ELSE idb
    /\ UNCHANGED <<tree, ed>>
    /\ UNCHANGED serverVars

\* saveNote on the new note: createNote, create's request
SaveNew(i) ==
    /\ last[i].op = "create" /\ last[i].pc = "chosen"
    /\ sv' = [sv EXCEPT !.create = request(@, i, "create")]
    /\ last' = [last EXCEPT ![i].pc = "create",
                            ![i].req = Len(sv.create) + 1]
    /\ UNCHANGED <<tree, idb, ed>>
    /\ UNCHANGED serverVars

\* saveNote again while create's request is in flight
SaveNewAgain(i) ==
    /\ Len(last) < MaxCalls
    /\ last[i].op = "create" /\ last[i].pc = "create"
    /\ sv' = [sv EXCEPT !.create = request(@, Len(last) + 1, "create")]
    /\ last' = Append(last, [Op("create", last[i].id, "create", {})
                                EXCEPT !.req = Len(sv.create) + 1])
    /\ UNCHANGED <<tree, idb, ed>>
    /\ UNCHANGED serverVars

\* create's request is answered; valid: the echoed note passes createNote's
\* validation
CreateAnswered(i, res, valid) ==
    /\ last[i].op = "create" /\ last[i].pc = "create"
    /\ res \in Answers(sv.create[last[i].req])
    /\ sv' = [sv EXCEPT !.create = Settle(@, last[i].req, res)]
    /\ IF res = "json" /\ valid
       THEN /\ idb' = NoteCache(idb.notes \cup {last[i].id})
            /\ tree' = addItem(tree, last[i].id, ROOT_ID)
            /\ last' = [last EXCEPT ![i].pc = "done", ![i].out = "created"]
       ELSE /\ last' = [last EXCEPT ![i].pc = "done", ![i].out = "failed"]
            /\ UNCHANGED <<tree, idb>>
    /\ treeStore' = IF res = "json" /\ Item(treeStore, last[i].id).absent
                    THEN addItem(treeStore, last[i].id, ROOT_ID)
                    ELSE treeStore
    /\ UNCHANGED <<store, sd, ed>>

\* updateNote({content, title, date}): abort(), then mutate
UpdateNote(id) ==
    /\ Len(last) < MaxCalls
    /\ id \in idb.notes
    /\ LET updatedData == {"content", "title", "date"}
           i == Len(last) + 1
       IN  /\ sv' = [sv EXCEPT !.mutate = mutateFirst(abort(@), i, updatedData)]
           /\ last' = Append(last, [Op("update", id, "content", updatedData)
                                      EXCEPT !.req = Len(sv.mutate) + 1])
    /\ UNCHANGED <<tree, idb, ed>>
    /\ UNCHANGED serverVars

\* removeNote: mutate(id, {deleted}), to which mutate adds the date
RemoveNote(id) ==
    /\ Len(last) < MaxCalls
    /\ id \in idb.notes
    /\ LET updatedBody == {"deleted", "date"}
           i == Len(last) + 1
       IN  /\ sv' = [sv EXCEPT !.mutate = mutateFirst(@, i, updatedBody)]
           /\ last' = Append(last, [Op("remove", id, "meta", updatedBody)
                                      EXCEPT !.req = Len(sv.mutate) + 1])
    /\ UNCHANGED <<tree, idb, ed>>
    /\ UNCHANGED serverVars

\* mutate's content request is answered: the metadata request follows a
\* content that was saved
ContentAnswered(i, res) ==
    /\ last[i].pc = "content"
    /\ sv.mutate[last[i].req].kind = "content"
    /\ res \in Answers(sv.mutate[last[i].req])
    /\ LET settled == Settle(sv.mutate, last[i].req, res)
       IN  IF res = "json" /\ mutateSendsMeta(last[i].body)
           THEN /\ sv' = [sv EXCEPT !.mutate = request(settled, i, "meta")]
                /\ last' = [last EXCEPT ![i].pc = "meta",
                                        ![i].req = Len(sv.mutate) + 1]
           ELSE /\ sv' = [sv EXCEPT !.mutate = settled]
                /\ last' = [last EXCEPT ![i].pc = "done",
                                ![i].out = IF res = "json" THEN "saved"
                                           ELSE "failed"]
    /\ UNCHANGED <<tree, idb, ed>>
    /\ UNCHANGED serverVars

\* mutate's metadata request is answered; removeNote goes on with
\* noteCache.mutateItem and removeItem
MetaAnswered(i, res) ==
    /\ last[i].pc = "meta"
    /\ sv.mutate[last[i].req].kind = "meta"
    /\ res \in Answers(sv.mutate[last[i].req])
    /\ sv' = [sv EXCEPT !.mutate = Settle(@, last[i].req, res)]
    /\ last' = [last EXCEPT ![i].pc = "done",
                            ![i].out = IF res = "json" THEN "saved"
                                       ELSE "failed"]
    /\ tree' = IF res = "json" /\ last[i].op = "remove"
               THEN removeItem(tree, last[i].id) ELSE tree
    /\ UNCHANGED <<idb, ed>>
    /\ UNCHANGED serverVars

NextRequests ==
    \/ \E id \in Notes : Navigate(id)
    \/ \E newId \in Notes : NavigateNew(newId)
    \/ \E i \in 1..Len(last) : LoadCache(i)
    \/ \E i \in 1..Len(last), res \in RequestOutcomes : LoadResponds(i, res)
    \/ \E i \in 1..Len(last) : SaveNew(i)
    \/ \E i \in 1..Len(last) : SaveNewAgain(i)
    \/ \E i \in 1..Len(last), res \in RequestOutcomes, valid \in BOOLEAN :
            CreateAnswered(i, res, valid)
    \/ \E id \in Notes : UpdateNote(id)
    \/ \E id \in Notes : RemoveNote(id)
    \/ \E i \in 1..Len(last), res \in RequestOutcomes : ContentAnswered(i, res)
    \/ \E i \in 1..Len(last), res \in RequestOutcomes : MetaAnswered(i, res)

SpecRequests == InitRequests /\ [][NextRequests]_vars

----------------------------------------------------------------------------
(* SpecTrash: a client that moves notes to the trash and restores them      *)
(* (state/note.ts removeNote, state/tree.ts removeItem and restoreItem)     *)
(* against the server's endpoints, one request at a time.  tree is the      *)
(* tree in memory, idb the deleted flag noteCache holds for each note.      *)

\* noteCache.mutateItem(id, {deleted}) for every id of ids
mutateItems(cache, ids, deleted) ==
    [n \in Notes |-> IF n \in ids THEN deleted ELSE cache[n]]

\* useNoteTree.restoreItem, the cache entries of flattenTree(newTree, id)
cacheAfterRestore(cache, newTree, id) ==
    mutateItems(cache, Range(FlatIds(flattenTree(newTree, id).list)),
                Num(NOTE_DELETED_NORMAL))

\* useNoteTree.removeItem, the cache entries of flattenTree(tree, id)
cacheAfterRemove(cache, newTree, id) ==
    mutateItems(cache, Range(FlatIds(flattenTree(newTree, id).list)),
                Num(NOTE_DELETED_DELETED))

InitTrash ==
    /\ \E pB \in {ROOT_ID, "A"}, pC \in {ROOT_ID, "A", "B"} :
        treeStore = addItem(addItem(addItem(DEFAULT_TREE, "A", ROOT_ID),
                                    "B", pB), "C", pC)
    /\ tree = treeStore
    /\ store = StoreOf(Notes)
    /\ idb = [n \in Notes |-> Num(NOTE_DELETED_NORMAL)]
    /\ last = NoCall
    /\ sd = Idle
    /\ ed = NoEditor
    /\ sv = NoSave

\* removeNote: the meta POST with deleted = DELETED (the cascade and the
\* detach on the server), then the cache entry and removeItem
ClientRemove(id, now) ==
    /\ Deleted(store, id) # Num(NOTE_DELETED_DELETED)
    /\ ~cascadeSoftDeleteNotesThrows(treeStore, id)
    /\ store' = cascadeSoftDeleteNotes(store, treeStore, id, now)
    /\ treeStore' = removeItem(treeStore, id)
    /\ tree' = removeItem(tree, id)
    /\ idb' = cacheAfterRemove(
                mutateItems(idb, {id}, Num(NOTE_DELETED_DELETED)),
                removeItem(tree, id), id)
    /\ last' = [NoCall EXCEPT !.op = "remove", !.out = id]
    /\ UNCHANGED <<sd, ed, sv>>

\* the restore of a note of the trash: the trash endpoint's restore, then
\* the cache entry and restoreItem
ClientRestore(id, pid, now) ==
    /\ Deleted(store, id) = Num(NOTE_DELETED_DELETED)
    /\ pid \notin {id} \cup Descendants(tree, id)
    /\ ~copyObjectThrows(store, id)
    /\ ~restoreItemThrows(treeStore, id, pid)
    /\ ~restoreItemThrows(tree, id, pid)
    /\ store' = copyObject(store, id,
                    restoreMeta(getObjectMeta(store, id), now),
                    "text/markdown")
    /\ treeStore' = restoreItem(treeStore, id, pid)
    /\ tree' = restoreItem(tree, id, pid)
    /\ idb' = cacheAfterRestore(
                mutateItems(idb, {id}, Num(NOTE_DELETED_NORMAL)),
                restoreItem(tree, id, pid), id)
    /\ last' = [NoCall EXCEPT !.op = "restore", !.out = id]
    /\ UNCHANGED <<sd, ed, sv>>

NextTrash ==
    \/ \E id \in Notes, now \in Times : ClientRemove(id, now)
    \/ \E id \in Notes, pid \in Ids, now \in Times :
            ClientRestore(id, pid, now)

SpecTrash == InitTrash /\ [][NextTrash]_vars

----------------------------------------------------------------------------
(* SpecSave: one manual save of an existing note (saveNote, updateNote,     *)
(* mutate: the content request, then the metadata request) and one soft     *)
(* delete of the trash endpoint, each handled in the steps its awaits       *)
(* divide it into, over the same object store.  sd is the soft delete, sv   *)
(* the save.                                                                *)

\* what the editor holds when the save is started
LocalContents == {"", "new"}
LocalTitles == {"A", "t"}

\* no soft delete is being handled
NoCascade == [pc |-> "idle", id |-> ROOT_ID, queue |-> <<>>, items |-> <<>>,
              now |-> 0, itemMetaS3 |-> NoMeta, existingContent |-> ""]

\* no save has been started: before is the server's note when it starts,
\* during whether the content request was answered while a soft delete
\* was running over the note
NoUpdate == [pc |-> "idle", id |-> ROOT_ID, content |-> "", title |-> "",
             oldMeta |-> NoMeta, before |-> NoteModel(None, None),
             saveResult |-> NoNote, posted |-> FALSE, during |-> FALSE,
             out |-> "none"]

\* the title of the stored note
StoredTitle(st, id) == metaToJson(getObjectMeta(st, id))["title"]

\* a soft delete has read the tree and has not yet detached the target
Running(s) == s.pc \notin {"idle", "done"}

\* the loop goes on with the next item, or ends
nextItem(s) ==
    [s EXCEPT !.queue = Tail(@),
              !.pc = IF Tail(s.queue) = <<>> THEN "detach" ELSE "hasObject"]

\* the notes A and B in the tree, B under A or beside it, each with its
\* object
InitSave ==
    /\ tree = DEFAULT_TREE
    /\ last = NoCall
    /\ ed = NoEditor
    /\ idb = EmptyIdb
    /\ sd = NoCascade
    /\ sv = NoUpdate
    /\ \E pB \in {ROOT_ID, "A"} :
        treeStore = addItem(addItem(DEFAULT_TREE, "A", ROOT_ID), "B", pB)
    /\ store = StoreOf({"A", "B"})

\* trash endpoint, action 'delete': cascadeSoftDeleteNotes reads the tree
\* and builds itemsToSoftDelete
CascadeBegin(id, now) ==
    /\ sd.pc = "idle"
    /\ LET mainItem == Item(treeStore, id)
           flat == flattenTree(treeStore, id)
       IN  sd' = IF mainItem.absent
                 THEN [NoCascade EXCEPT !.pc = "detach", !.id = id]
                 ELSE IF flat.err # "none"
                 THEN [NoCascade EXCEPT !.pc = "done", !.id = id]
                 ELSE [NoCascade EXCEPT
                          !.pc = "hasObject", !.id = id, !.now = now,
                          !.queue = <<id>> \o FlatIds(flat.list),
                          !.items = <<id>> \o FlatIds(flat.list)]
    /\ UNCHANGED <<tree, last, store, treeStore, ed, idb, sv>>

\* the loop: await store.hasObject(currentItemPath)
CascadeHasObject ==
    /\ sd.pc = "hasObject"
    /\ sd' = IF hasObject(store, Head(sd.queue))
             THEN [sd EXCEPT !.pc = "getObjectMeta"]
             ELSE nextItem(sd)
    /\ UNCHANGED <<tree, last, store, treeStore, ed, idb, sv>>

\* the loop: await store.getObjectMeta(currentItemPath)
CascadeGetObjectMeta ==
    /\ sd.pc = "getObjectMeta"
    /\ sd' = [sd EXCEPT !.pc = "getObject",
                        !.itemMetaS3 = getObjectMeta(store, Head(sd.queue))]
    /\ UNCHANGED <<tree, last, store, treeStore, ed, idb, sv>>

\* the loop: await store.getObject(currentItemPath)
CascadeGetObject ==
    /\ sd.pc = "getObject"
    /\ sd' = [sd EXCEPT !.pc = "putObject",
                        !.existingContent = getObject(store, Head(sd.queue))]
    /\ UNCHANGED <<tree, last, store, treeStore, ed, idb, sv>>

\* the loop: await store.putObject(currentItemPath, existingContent || '',
\* { meta: newItemMetaS3, contentType })
CascadePutObject ==
    /\ sd.pc = "putObject"
    /\ store' = putObject(store, Head(sd.queue), sd.existingContent,
                          softDeleteMeta(sd.itemMetaS3, sd.now),
                          softDeleteContentType(sd.itemMetaS3))
    /\ sd' = [nextItem(sd) EXCEPT !.itemMetaS3 = NoMeta,
                                  !.existingContent = ""]
    /\ UNCHANGED <<tree, last, treeStore, ed, idb, sv>>

\* the trash endpoint detaches the target: treeStore.removeItem(id)
CascadeDetach ==
    /\ sd.pc = "detach"
    /\ treeStore' = removeItem(treeStore, sd.id)
    /\ sd' = [sd EXCEPT !.pc = "done"]
    /\ UNCHANGED <<tree, last, store, ed, idb, sv>>

\* saveNote on an existing note: updateNote calls mutate, which sends the
\* content request
ManualSave(id, content, title) ==
    /\ sv.pc = "idle"
    /\ sv' = [NoUpdate EXCEPT
                !.pc = "content", !.id = id,
                !.content = content, !.title = title,
                !.before = NoteModel(getObject(store, id),
                                     StoredTitle(store, id))]
    /\ UNCHANGED <<tree, last, store, treeStore, sd, ed, idb>>

\* a request that throws (no answer, or an answer that is not ok): mutate
\* throws, updateNote shows the error and returns undefined, saveNote
\* returns false
RequestThrows ==
    /\ sv.pc \in {"content", "meta"}
    /\ sv' = [sv EXCEPT !.pc = "done", !.out = "failed"]
    /\ UNCHANGED <<tree, last, store, treeStore, sd, ed, idb>>

\* POST api/notes/[id]: getObjectMeta, the date set on what was read; an
\* empty content is copied to a backup first, which throws when there is
\* no object to copy
ContentRead(now) ==
    /\ sv.pc = "content"
    /\ LET read == getObjectMeta(store, sv.id)
           oldMeta == IF read = NoMeta THEN NoMeta
                      ELSE [read EXCEPT !["date"] = strCompress(Iso(now))]
       IN  sv' = IF sv.content = "" /\ copyObjectThrows(store, sv.id)
                 THEN [sv EXCEPT !.pc = "done", !.out = "failed"]
                 ELSE [sv EXCEPT !.pc = "putObject", !.oldMeta = oldMeta]
    /\ UNCHANGED <<tree, last, store, treeStore, sd, ed, idb>>

\* POST api/notes/[id]: putObject(notePath, content, { meta: oldMeta })
ContentPut ==
    /\ sv.pc = "putObject"
    /\ store' = putContent(store, sv.id, sv.content, sv.oldMeta)
    /\ sv' = [sv EXCEPT !.pc = "getNote"]
    /\ UNCHANGED <<tree, last, treeStore, sd, ed, idb>>

\* POST api/notes/[id]: getNote and the answer; mutate goes on to the
\* metadata request
ContentRespond ==
    /\ sv.pc = "getNote"
    /\ sv' = IF getNoteThrows(store, sv.id)
             THEN [sv EXCEPT !.pc = "done", !.out = "failed"]
             ELSE [sv EXCEPT !.pc = "meta", !.posted = TRUE,
                             !.during = Running(sd) /\
                                        sv.id \in Range(sd.items)]
    /\ UNCHANGED <<tree, last, store, treeStore, sd, ed, idb>>

\* the object after POST api/notes/[id]/meta with { title, date }
metaPosted(st, id, title, now) ==
    LET oldMetaS3 == getObjectMeta(st, id)
        body == [NoJson EXCEPT !["title"] = Str(title)]
        merged == newMetaJson(metaToJson(oldMetaS3), body, now)
    IN  copyObject(st, id, Merge(oldMetaS3, jsonToMeta(merged)),
                   "text/markdown")

\* POST api/notes/[id]/meta: the title and the date are merged into the
\* metadata and the note is answered; updateNote compares the title
MetaPost(now) ==
    /\ sv.pc = "meta"
    /\ IF ~hasObject(store, sv.id)
       THEN /\ sv' = [sv EXCEPT !.pc = "done", !.out = "failed"]
            /\ store' = store
       ELSE LET copied == metaPosted(store, sv.id, sv.title, now)
                answer == responseNote(copied, sv.id,
                              metaToJson(getObjectMeta(copied, sv.id)))
            IN  /\ store' = copied
                /\ sv' = IF answer.meta["title"] # Str(sv.title)
                         THEN [sv EXCEPT !.pc = "done", !.out = "failed",
                                         !.saveResult = answer]
                         ELSE [sv EXCEPT !.pc = "validate",
                                         !.saveResult = answer]
    /\ UNCHANGED <<tree, last, treeStore, sd, ed, idb>>

\* saveNote validates the content and the title of the result, then
\* refreshes the tree
SaveResultValidate ==
    /\ sv.pc = "validate"
    /\ sv' = IF sv.saveResult.content # Some(sv.content)
                \/ sv.saveResult.meta["title"] # Str(sv.title)
             THEN [sv EXCEPT !.pc = "done", !.out = "failed"]
             ELSE [sv EXCEPT !.pc = "initTree"]
    /\ UNCHANGED <<tree, last, store, treeStore, sd, ed, idb>>

\* saveNote: initTree returns and the success is shown, or it throws and
\* saveNote's catch shows the failure
SaveRefresh(throws) ==
    /\ sv.pc = "initTree"
    /\ sv' = [sv EXCEPT !.pc = "done",
                        !.out = IF throws THEN "failed" ELSE "ok"]
    /\ UNCHANGED <<tree, last, store, treeStore, sd, ed, idb>>

NextSave ==
    \/ \E id \in {"A", "B"}, now \in Times : CascadeBegin(id, now)
    \/ CascadeHasObject
    \/ CascadeGetObjectMeta
    \/ CascadeGetObject
    \/ CascadePutObject
    \/ CascadeDetach
    \/ \E id \in {"A", "B"}, content \in LocalContents, title \in LocalTitles :
            ManualSave(id, content, title)
    \/ RequestThrows
    \/ \E now \in Times : ContentRead(now)
    \/ ContentPut
    \/ ContentRespond
    \/ \E now \in Times : MetaPost(now)
    \/ SaveResultValidate
    \/ \E throws \in BOOLEAN : SaveRefresh(throws)

SpecSave == InitSave /\ [][NextSave]_vars

----------------------------------------------------------------------------
(* Claims on the tree algebra, under SpecTree *)

\* C9: starting from a well-formed tree, after any sequence of addItem,
\* removeItem, restoreItem and deleteItem calls (each with a parent id that
\* exists), no id appears in more than one children list or twice in one
\* list, no item is its own ancestor, and the root id is a key of items.
C9_TreeStaysWellFormed ==
    /\ \A id \in Ids : Occurrences(tree, id) <= 1
    /\ \A id \in Keys(tree) : id \notin Descendants(tree, id)
    /\ ROOT_ID \in Keys(tree)

----------------------------------------------------------------------------
(* Claims on the tree algebra called on any tree value, under SpecInput *)

\* the ids some children list of t names that are no key of t.items
Dangling(t) ==
    {c \in InputKeys :
        /\ c \notin Keys(t)
        /\ \E i \in 1..Len(t.items) : Includes(t.items[i].children, c)}

\* the calls of the four mutating operations
Mutators == {"addItem", "removeItem", "restoreItem", "deleteItem"}

\* C11: for every tree that holds the root and every id on which deleteItem
\* returns, the root id is a key of items of the tree returned, and
\* deleteItem(tree, ROOT_ID) returns a tree equal to the one it was given.
C11_RootSurvivesDelete ==
    (last.op = "deleteItem" /\ last.out = "none") =>
        /\ ROOT_ID \in Keys(last.before) => ROOT_ID \in Keys(last.ret)
        /\ last.id = ROOT_ID => last.ret = last.before

\* C11 witness: deleteItem returned for an id that has the root among its
\* descendants, so the root was one of the ids collected for deletion.
C11_Witness ==
    /\ last.op = "deleteItem"
    /\ last.out = "none"
    /\ last.id # ROOT_ID
    /\ last.id \in Keys(last.before)
    /\ ROOT_ID \in Range(FlatIds(flattenTree(last.before, last.id).list))
    /\ ROOT_ID \in Keys(last.ret)

\* C12: on a tree in which some children list names an id that has no entry
\* in items (and on which the recursion ends), flattenTree returns without
\* throwing and its output has no entry for the dangling id.
C12_FlattenSkipsDangling ==
    ( /\ last.op = "flattenTree"
      /\ Dangling(last.before) # {}
      /\ last.out # "RangeError" )
    => /\ last.out = "none"
       /\ \A i \in 1..Len(last.list) : last.list[i].id \notin Dangling(last.before)

\* C13: flattenTree's recursion ends on every tree value, a tree whose
\* children lists form a cycle included.
C13_FlattenTerminates ==
    last.op = "flattenTree" => last.out # "RangeError"

\* C14: cleanTreeModel is idempotent: cleaning what it returned returns the
\* same tree again.
C14_CleanIdempotent ==
    (last.op = "cleanTreeModel" /\ last.out = "none") =>
        /\ ~cleanTreeModelThrows(last.ret)
        /\ cleanTreeModel(last.ret) = last.ret

\* C15: in the tree cleanTreeModel returns, hasChildren of every item is true
\* exactly when its children list is non-empty, every id of every children
\* list is a key of items, and rootId is a key of items.
C15_CleanRepairs ==
    (last.op = "cleanTreeModel" /\ last.out = "none") =>
        /\ \A i \in 1..Len(last.ret.items) :
            /\ last.ret.items[i].hasChildren
                    <=> (last.ret.items[i].children # <<>>)
            /\ Range(last.ret.items[i].children) \subseteq Keys(last.ret)
        /\ last.ret.rootId \in Keys(last.ret)

\* C16: in the tree cleanTreeModel returns, every item is the root or is
\* reached from it along children lists.
C16_CleanLeavesNoOrphan ==
    (last.op = "cleanTreeModel" /\ last.out = "none") =>
        Keys(last.ret) \subseteq
            {last.ret.rootId} \cup Descendants(last.ret, last.ret.rootId)

\* C17: addItem with a parent id that is no key of items signals an error
\* and leaves the tree it was passed as it was: no item record added, no
\* children list changed.
C17_AddItemInvalidParent ==
    (last.op = "addItem" /\ last.pid \notin Keys(last.before)) =>
        /\ last.out = "throw"
        /\ tree = last.before

\* C18: addItem, removeItem, restoreItem and deleteItem leave the tree value
\* passed to them as it was; the change is only in the tree returned.
C18_InputUntouched ==
    last.op \in Mutators => tree = last.before

\* C19: for every tree T, parent p that is a key of T and id a in no
\* children list of T, removeItem(addItem(T, a, p), a) has the keys of
\* addItem(T, a, p), still holds a's item record, has a in no children list,
\* and every other item's children list is the one it has in T.
C19_AddThenRemove ==
    \A a \in InputKeys, p \in InputKeys :
        (p \in Keys(tree) /\ Occurrences(tree, a) = 0) =>
            LET T1 == addItem(tree, a, p)
                T2 == removeItem(T1, a)
            IN  /\ ~addItemThrows(tree, a, p)
                /\ Keys(T2) = Keys(T1)
                /\ KeySeq(T2) = KeySeq(T1)
                /\ Item(T2, a) = IF a \in Keys(tree) THEN Item(tree, a)
                                 ELSE NewItem(a)
                /\ Occurrences(T2, a) = 0
                /\ \A k \in Keys(tree) \ {a} :
                        Item(T2, k) = Item(tree, k)

\* C19 witness: removeItem has just been called with a on the tree that
\* addItem(T, a, p) made of a tree T in which a was attached nowhere.
C19_Witness ==
    /\ last.op = "removeItem"
    /\ Occurrences(tree, last.id) = 0
    /\ last.id \in Keys(tree)
    /\ \E p \in Keys(tree) \ {last.id} :
        /\ last.before = addItem(tree, last.id, p)
        /\ Item(last.before, p).children # Item(tree, p).children

----------------------------------------------------------------------------
(* Claims on restoreItem, under SpecTree *)

\* C20: after restoreItem(tree, id, parentId) with parentId in items, id is
\* in exactly one children list, parentId's, exactly once, and id's own item
\* record and children list are the ones it had; also when id was a child of
\* parentId already.
C20_RestoreAttachesOnce ==
    [][\A id \in Notes, pid \in Ids :
        (RestoreItem(id, pid) /\ id \in Keys(tree)) =>
            /\ Occurrences(tree', id) = 1
            /\ Count(Item(tree', pid).children, id) = 1
            /\ Item(tree', id) = Item(tree, id)]_vars

----------------------------------------------------------------------------
(* flattenTree and addItem on the trees of SpecTree *)

\* a tree whose children lists name items of the tree, each id at most
\* once, and in which no item is its own descendant
WellFormed(t) ==
    /\ \A id \in Ids : Occurrences(t, id) <= 1
    /\ \A id \in Keys(t) : id \notin Descendants(t, id)
    /\ \A id \in Keys(t) : Range(Item(t, id).children) \subseteq Keys(t)

C28_AddItemAppends ==
    [][\A id \in Notes, pid \in Ids :
        (pid \in Keys(tree) /\ last'.op = "addItem" /\ AddItem(id, pid))
        => /\ Item(tree', pid).children = Append(Item(tree, pid).children, id)
           /\ Item(tree', pid).children[Len(Item(tree', pid).children)] = id
           /\ \A k \in Keys(tree') \ {pid} :
                Item(tree', k).children = Item(tree, k).children
           /\ Keys(tree') = Keys(tree) \cup {id}
           /\ Keep(KeySeq(tree'), Keys(tree)) = KeySeq(tree)]_vars

\* C has just been added under the root after A and B
C28_Witness ==
    /\ last.op = "addItem"
    /\ Item(tree, ROOT_ID).children = <<"A", "B", "C">>
    /\ Item(tree, "A").children = <<>>
    /\ Item(tree, "B").children = <<>>
    /\ Item(tree, "C").children = <<>>

----------------------------------------------------------------------------
(* The cascading delete / restore engine (Spec) *)

\* the note's metadata as the endpoints read it
Json(st, id) == metaToJson(getObjectMeta(st, id))

\* [target, ...flattenTree(tree, target)] as a set of ids
CascadeSet(t, id) == {id} \cup Range(FlatIds(flattenTree(t, id).list))

\* the metadata rows a soft delete has no business with
Unrelated == RawKeys \ {"deleted", "deletedAt", "date"}

\* C1: a hard delete (trash 'delete', permanent = true) of a note that has
\* exactly two descendants, all three with an object, removes the three
\* objects and the three tree ids: afterwards hasObject is false for all three.
C1_HardDeleteRemovesThree ==
    [][\A id \in Notes :
        ( /\ HardDelete(id)
          /\ flattenTree(treeStore, id).err = "none"
          /\ id \in Keys(treeStore)
          /\ CascadeSet(treeStore, id) = Notes
          /\ \A n \in Notes : hasObject(store, n) )
        => /\ \A n \in Notes : ~hasObject(store', n)
           /\ Keys(treeStore') \cap Notes = {}]_vars

\* C2: when cascadeSoftDeleteNotes has completed on a target that is in the
\* tree, every note of {target} \cup flattenTree(tree, target) that had an
\* object is DELETED with deletedAt set (to the time of the call), and its
\* content, its unrelated metadata and its content type are as before.
C2_CascadeTombstonesAll ==
    (sd.pc = "detach" /\ sd.inTree) =>
        \A n \in CascadeSet(sd.treeBefore, sd.id) :
            hasObject(sd.storeBefore, n) =>
                /\ hasObject(store, n)
                /\ Json(store, n)["deleted"] = Num(NOTE_DELETED_DELETED)
                /\ Json(store, n)["deletedAt"] = Str(Iso(sd.now))
                /\ store[n].content = sd.storeBefore[n].content
                /\ store[n].ctype = sd.storeBefore[n].ctype
                /\ \A k \in Unrelated : store[n].meta[k] = sd.storeBefore[n].meta[k]
                /\ Json(store, n)["title"] = Json(sd.storeBefore, n)["title"]

\* a cascade over three notes that all have an object has completed
C2_Witness ==
    /\ sd.pc = "detach"
    /\ sd.inTree
    /\ CascadeSet(sd.treeBefore, sd.id) = Notes
    /\ \A n \in Notes : hasObject(sd.storeBefore, n) /\ store[n].content # ""

\* C3: the trash 'restore' of a note with parentId = root makes the note
\* NORMAL and a child of root, and leaves every other object (the tombstones
\* of its descendants) as it was.
C3_RestoreTargetOnly ==
    [][\A id \in Notes, now \in Times :
        (hasObject(store, id) /\ RestoreNote(id, ROOT_ID, now))
        => /\ Json(store', id)["deleted"] = Num(NOTE_DELETED_NORMAL)
           /\ Count(Item(treeStore', ROOT_ID).children, id) = 1
           /\ \A n \in Notes \ {id} : store'[n] = store[n]]_vars

\* A -> B -> C was soft-deleted and A restored under root: A is NORMAL (its
\* deletedAt still there) and under root, B and C are still DELETED
C3_Witness ==
    /\ sd.pc = "idle"
    /\ Json(store, "A")["deleted"] = Num(NOTE_DELETED_NORMAL)
    /\ Json(store, "A")["deletedAt"] # Nil
    /\ Includes(Item(treeStore, ROOT_ID).children, "A")
    /\ Item(treeStore, "A").children = <<"B">>
    /\ Item(treeStore, "B").children = <<"C">>
    /\ Json(store, "B")["deleted"] = Num(NOTE_DELETED_DELETED)
    /\ Json(store, "C")["deleted"] = Num(NOTE_DELETED_DELETED)

\* C4: while a soft delete is handled the tree changes only at the detach,
\* and the detach comes when every object of the cascade set has been
\* rewritten; after it the target is in no children list, its item record is
\* the one it had, and the children lists of the target and of its
\* descendants are the ones they had before the request.
C4_DetachAfterCascade ==
    [][ /\ sd.pc = "cascade" => treeStore' = treeStore
        /\ SoftDeleteDetach =>
            /\ sd.inTree =>
                \A n \in CascadeSet(sd.treeBefore, sd.id) :
                    hasObject(sd.storeBefore, n) =>
                        store[n].meta = softDeleteMeta(sd.storeBefore[n].meta, sd.now)
            /\ Occurrences(treeStore', sd.id) = 0
            /\ Item(treeStore', sd.id) = Item(sd.treeBefore, sd.id)
            /\ Keys(treeStore') = Keys(sd.treeBefore)
            /\ sd.inTree =>
                \A n \in CascadeSet(sd.treeBefore, sd.id) :
                    Item(treeStore', n).children = Item(sd.treeBefore, n).children
      ]_vars

\* A with its child B was soft-deleted: both are DELETED, A is a key of the
\* tree and in no children list, B is still the child of A
C4_Witness ==
    /\ sd.pc = "idle"
    /\ Json(store, "A")["deleted"] = Num(NOTE_DELETED_DELETED)
    /\ Json(store, "B")["deleted"] = Num(NOTE_DELETED_DELETED)
    /\ "A" \in Keys(treeStore)
    /\ Occurrences(treeStore, "A") = 0
    /\ Item(treeStore, "A").children = <<"B">>

\* C21: the trash 'restore' of an id that has no backing object fails with an
\* error given to the caller, and neither the object store nor the persisted
\* tree is changed by it (the id is not reattached).
C21_RestoreMissingFails ==
    [][\A id \in Notes, parentId \in Ids, now \in Times :
        (~hasObject(store, id) /\ RestoreNote(id, parentId, now))
        => /\ sd'.res = "error"
           /\ store' = store
           /\ treeStore' = treeStore]_vars

\* a request has just failed where only a restore without an object can fail:
\* no note has an object, flattenTree throws on no id, and the tree still
\* holds an item for a note
C21_Witness ==
    /\ sd.pc = "idle"
    /\ sd.res = "error"
    /\ \A n \in Notes : ~hasObject(store, n)
    /\ \A id \in Ids : flattenTree(treeStore, id).err = "none"
    /\ Keys(treeStore) \cap Notes # {}

\* C29: cascadeSoftDeleteNotes on an id that is no key of the persisted
\* tree's items returns without an error and writes no object: when it has
\* returned, every object's content and metadata are what they were.
C29_CascadeAbsentTargetNoWrite ==
    (sd.pc = "detach" /\ ~sd.inTree) =>
        /\ sd.id \notin Keys(sd.treeBefore)
        /\ sd.res = "none"
        /\ sd.queue = <<>>
        /\ store = sd.storeBefore

\* the cascade has returned for a note that has an object (not DELETED) but
\* no item in the tree
C29_Witness ==
    /\ sd.pc = "detach"
    /\ ~sd.inTree
    /\ hasObject(store, sd.id)
    /\ Json(store, sd.id)["deleted"] = Num(NOTE_DELETED_NORMAL)
    /\ \E n \in Notes \ {sd.id} : hasObject(store, n)

\* the notes flattenTree lists under id
FlatSet(t, id) == Range(FlatIds(flattenTree(t, id).list))

\* C30: when an item of the cascade set has no backing object,
\* cascadeSoftDeleteNotes does not fail and makes no object for it, and it
\* tombstones every other item of the set whose object exists; and a hard
\* delete skips a descendant whose object is gone and goes on with the rest.
C30_MissingObjectsSkipped ==
    /\ []( (sd.pc = "detach" /\ sd.inTree) =>
            /\ sd.res = "none"
            /\ \A n \in CascadeSet(sd.treeBefore, sd.id) :
                IF hasObject(sd.storeBefore, n)
                THEN /\ hasObject(store, n)
                     /\ Json(store, n)["deleted"] = Num(NOTE_DELETED_DELETED)
                     /\ Json(store, n)["deletedAt"] = Str(Iso(sd.now))
                ELSE store[n] = sd.storeBefore[n] )
    /\ [][ /\ (sd.pc = "cascade" /\ ~hasObject(store, Head(sd.queue))
                    /\ SoftDeleteStep)
                => /\ store' = store
                   /\ sd'.queue = Tail(sd.queue)
                   /\ sd'.res = "none"
           /\ \A id \in Notes :
                ( /\ sd.pc = "idle"
                  /\ sd'.pc = "idle"
                  /\ flattenTree(treeStore, id).err = "none"
                  /\ \E d \in FlatSet(treeStore, id) : ~hasObject(store, d)
                  /\ HardDelete(id) )
                => /\ sd'.res = "ok"
                   /\ \A d \in FlatSet(treeStore, id) : ~hasObject(store', d)
                   /\ \A n \in Notes \ FlatSet(treeStore, id) :
                        store'[n] = store[n]
                   /\ Keys(treeStore') =
                        Keys(treeStore) \ ({id} \cup FlatSet(treeStore, id))
         ]_vars

\* a cascade has completed over a set in which one note had no object and
\* another one had, and has its tombstone now
C30_Witness ==
    /\ sd.pc = "detach"
    /\ sd.inTree
    /\ \E n, m \in CascadeSet(sd.treeBefore, sd.id) :
        /\ ~hasObject(sd.storeBefore, n)
        /\ ~hasObject(store, n)
        /\ hasObject(sd.storeBefore, m)
        /\ Json(sd.storeBefore, m)["deleted"] = Num(NOTE_DELETED_NORMAL)
        /\ Json(store, m)["deleted"] = Num(NOTE_DELETED_DELETED)

----------------------------------------------------------------------------
(* The tree's initialisation (SpecInitTree) *)

\* C22: every run of initTree that has ended, whatever failed on the way,
\* has set a tree that holds the root and has set initLoaded; when neither
\* the cache nor the server gave a tree, the tree set is the default tree
\* and an error notification was shown.
C22_InitTreeAlwaysLoads ==
    (sv.pc = "idle" /\ sv.out # "none") =>
        /\ ~Item(tree, ROOT_ID).absent
        /\ sv.initLoaded
        /\ sv.treeToSet = None => (tree = DEFAULT_TREE /\ sv.toast = "error")

\* C31: the tree that fetchNotes returns holds the root's item and exactly
\* the ids whose note was resolved, and no children list in it names an id
\* whose note was not resolved.
C31_HydratedTreeHoldsResolved ==
    sv.treeToSet # None =>
        LET hydrated == sv.treeToSet[1]
        IN  /\ Keys(hydrated) = {ROOT_ID} \cup sv.noteDataMap
            /\ \A i \in 1..Len(hydrated.items) :
                 Range(hydrated.items[i].children)
                    \subseteq {ROOT_ID} \cup sv.noteDataMap

\* a hydration that dropped an item and took its id out of a children list
C31_Witness ==
    /\ sv.treeToSet # None
    /\ sv.inputTree # None
    /\ \E id \in Keys(sv.inputTree[1]) \ Keys(sv.treeToSet[1]) :
         \E i \in 1..Len(sv.inputTree[1].items) :
            id \in Range(sv.inputTree[1].items[i].children)
    /\ sv.noteDataMap # {}

----------------------------------------------------------------------------
(* The note endpoints (SpecNotes) *)

----------------------------------------------------------------------------
(* The editor's manual save and discard (SpecClient) *)

\* a step of the save in progress (the user's edits leave sv alone)
SaveStep == sv' # sv

HasError(log) == \E i \in 1..Len(log) : log[i] = "error"

\* a success notification: updateNote's, createNote's or saveNote's
HasSuccess(log) == \E i \in 1..Len(log) : log[i] \in {"updated", "created", "saved"}

DraftsKept ==
    /\ idb'.draftContent = idb.draftContent
    /\ idb'.draftTitle = idb.draftTitle

\* C5: when a manual save ends because the server's echoed content or title
\* differs from what was sent, the note in memory is the one from before
\* the save, the persisted draft is still there, the editor is still Dirty
\* and an error notification was shown.
C5_MismatchRollsBack ==
    [][(SaveStep /\ sv'.pc = "idle" /\ sv'.mismatch)
        => /\ ed'.note = sv.originalNote
           /\ DraftsKept
           /\ ed.hasLocalChanges => ed'.hasLocalChanges
           /\ HasError(sv'.log)]_vars

\* C6: every step of a manual save that has failed (the request failed or
\* the echoed note did not pass a validation), on the create path and on
\* the update path, keeps the persisted draft and the Dirty flag, and its
\* notifications hold a failure and no success.
C6_FailedSaveKeepsDraft ==
    [][(SaveStep /\ sv'.out = "failed")
        => /\ DraftsKept
           /\ ed.hasLocalChanges => ed'.hasLocalChanges
           /\ HasError(sv'.log)
           /\ ~HasSuccess(sv'.log)]_vars

\* C7: discardChanges, called after any edits while no save is in
\* progress, leaves the displayed content and title equal to the note's
\* last-known server copy (the note in memory, which is the cached copy when
\* there is one), the editor Clean and no persisted draft.
C7_DiscardRestoresServerCopy ==
    [][(DiscardChanges /\ sv.pc = "idle")
        => /\ Some(ed'.localContent) = ed.note.content
           /\ Some(ed'.localTitle) = ed.note.title
           /\ idb.cache # None => ed.note = idb.cache[1]
           /\ ~ed'.hasLocalChanges
           /\ idb'.draftContent = None
           /\ idb'.draftTitle = None]_vars

\* the changes were discarded: the discard notification is the one shown,
\* the editor shows the note, is Clean and has no draft
C7_Witness ==
    /\ ed.toast = "discarded"
    /\ sv.pc = "idle"
    /\ Some(ed.localContent) = ed.note.content
    /\ ~ed.hasLocalChanges
    /\ idb.draftContent = None /\ idb.draftTitle = None

C23_NoSecondSaveInFlight ==
    [][sv.pc \in {"update", "create"} => sv'.requests <= sv.requests]_vars

\* C24: whenever the note in memory is loaded into the editor (the [note]
\* effect) and a draft of its content or of its title is persisted, the
\* editor becomes Dirty and shows the drafts, with the server's value for
\* the field without a draft; when no draft is persisted the editor becomes
\* Clean and shows the server's content and title.  The server's values
\* are those of the note in memory, which must then have them.
C24_LoadShowsDraftOrServer ==
    [][LoadDraft
        => IF idb.draftContent # None \/ idb.draftTitle # None
           THEN /\ ed'.hasLocalChanges
                /\ Some(ed'.localContent) =
                        (IF idb.draftContent # None THEN idb.draftContent
                         ELSE ed.note.content)
                /\ Some(ed'.localTitle) =
                        (IF idb.draftTitle # None THEN idb.draftTitle
                         ELSE ed.note.title)
           ELSE /\ ~ed'.hasLocalChanges
                /\ Some(ed'.localContent) = ed.note.content
                /\ Some(ed'.localTitle) = ed.note.title]_vars

\* C25: every edit of the content or of the title sets the local value,
\* writes it to the persisted draft of that field and leaves the editor
\* Dirty; it sends no request and changes neither the save in progress,
\* the note in memory, the cached server copy nor the other field's draft.
C25_EditIsLocal ==
    [][ /\ \A newContent \in Bodies :
            OnEditorChange(newContent)
                => /\ ed'.localContent = newContent
                   /\ idb'.draftContent = Some(newContent)
                   /\ idb'.draftTitle = idb.draftTitle
                   /\ ed'.localTitle = ed.localTitle
                   /\ ed'.hasLocalChanges
                   /\ sv' = sv
                   /\ ed'.note = ed.note
                   /\ idb'.cache = idb.cache
        /\ \A title \in Titles :
            OnTitleChange(title)
                => /\ ed'.localTitle = title
                   /\ idb'.draftTitle = Some(title)
                   /\ idb'.draftContent = idb.draftContent
                   /\ ed'.localContent = ed.localContent
                   /\ ed'.hasLocalChanges
                   /\ sv' = sv
                   /\ ed'.note = ed.note
                   /\ idb'.cache = idb.cache
      ]_vars

\* content and title of an open note were edited and nothing was saved:
\* the editor is Dirty, both drafts hold the local values, no request was
\* sent and the note is the server's
C25_Witness ==
    /\ ~ed.isNew
    /\ ~ed.reload
    /\ ed.hasLocalChanges
    /\ ed.localContent = "a"
    /\ ed.localTitle = ""
    /\ idb.draftContent = Some("a")
    /\ idb.draftTitle = Some("")
    /\ sv.requests = 0
    /\ ed.note = NoteModel(Some("\n"), Some("t"))
    /\ idb.cache = Some(ed.note)

----------------------------------------------------------------------------
(* The client's requests (SpecRequests) *)

\* C32: whenever a find, create or update request is started while an
\* earlier request of the same kind is still outstanding, the earlier one is
\* cancelled.
C32_NewRequestCancelsEarlier ==
    [][\A f \in {"find", "create", "mutate"} :
          Len(sv'[f]) > Len(sv[f]) =>
             \A k \in 1..Len(sv[f]) :
                sv'[f][k].res = "pending" => sv'[f][k].aborted]_vars

\* C33: a note load whose request was cancelled by a navigation shows no
\* error notification and redirects nowhere.
C33_CancelledLoadIsSilent ==
    \A i \in 1..Len(last) :
        (/\ last[i].op = "load" /\ last[i].pc = "done" /\ last[i].req > 0
         /\ sv.find[last[i].req].res = "aborted")
            => last[i].out # "error"

\* C34: the id genNewId returns is no key of the tree in memory, and it is
\* chosen before a request for the new note is made: no create request
\* exists for the creation when its id is chosen, and every create request
\* carries an id that was chosen in an earlier step.
C34_NewIdIsFree ==
    [][/\ \A i \in 1..Len(last') :
            (i > Len(last) /\ last'[i].pc = "chosen") =>
                /\ Item(tree, last'[i].id).absent
                /\ \A k \in 1..Len(sv'.create) : sv'.create[k].call # i
       /\ \A k \in 1..Len(sv'.create) :
            k > Len(sv.create) =>
                \E j \in 1..Len(last) :
                    /\ last[j].op = "create"
                    /\ last[j].id = last'[sv'.create[k].call].id]_vars

\* an id was chosen while the tree held a note, and a request was made for it
C34_Witness ==
    \E i \in 1..Len(last) :
        /\ last[i].op = "create" /\ last[i].pc # "chosen"
        /\ Keys(tree) \cap (Notes \ {last[i].id}) # {}
        /\ sv.create # <<>>

\* C35: after a creation whose request fails or whose echoed note fails the
\* validation, the tree in memory has no item for the new id and the note
\* cache has no entry for it.
C35_FailedCreationLeavesNothing ==
    [][\A i \in 1..Len(last) :
          (last[i].pc = "create" /\ last'[i].out = "failed") =>
              /\ Item(tree', last[i].id).absent
              /\ last[i].id \notin idb'.notes]_vars

\* the requests mutate has made for call i, in the order they were made
MutateKinds(i) ==
    LET of == Keep([k \in 1..Len(sv.mutate) |-> k],
                   {k \in 1..Len(sv.mutate) : sv.mutate[k].call = i})
    IN  [n \in 1..Len(of) |-> sv.mutate[of[n]]]

----------------------------------------------------------------------------
(* The client's trash (SpecTrash) *)

\* C37: after the client has restored a note whose descendants an earlier
\* cascade had tombstoned, the deleted flag the note cache holds for each
\* descendant of the note is the deleted flag of the descendant's object on
\* the server.
C37_RestoreKeepsCacheInStep ==
    [][(last'.op = "restore" /\ \E id \in Notes, pid \in Ids, now \in Times :
                                    ClientRestore(id, pid, now)) =>
          \A d \in Descendants(tree', last'.out) :
              idb'[d] = Deleted(store', d)]_vars

----------------------------------------------------------------------------
(* The delete paths of the server (Spec) *)

\* the target of a delete and its descendants in the tree t
Subtree(t, id) == {id} \cup Descendants(t, id)

\* C40: every path of the server that soft-deletes a note (DELETE without
\* permanent, the metadata POST with deleted = DELETED, the trash endpoint's
\* delete) leaves the target and all its descendants in the tree DELETED,
\* and every path that deletes permanently (DELETE with permanent, the trash
\* endpoint's permanent delete) removes the objects and the tree entries of
\* the target and of all its descendants.
C40_EveryDeletePathIsDeep ==
    [][/\ \A id \in Notes, now \in Times :
            (sd.pc = "idle" /\ hasObject(store, id)
                /\ DeleteNote(id, FALSE, now)) =>
                \A n \in Subtree(treeStore, id) :
                    hasObject(store', n) =>
                        Deleted(store', n) = Num(NOTE_DELETED_DELETED)
       /\ (sd.pc = "detach" /\ SoftDeleteDetach) =>
                \A n \in Subtree(sd.treeBefore, sd.id) :
                    hasObject(store', n) =>
                        Deleted(store', n) = Num(NOTE_DELETED_DELETED)
       /\ \A id \in Notes, now \in Times :
            (sd.pc = "idle" /\ hasObject(store, id)
                /\ DeleteNote(id, TRUE, now)) =>
                \A n \in Subtree(treeStore, id) :
                    ~hasObject(store', n) /\ Item(treeStore', n).absent
       /\ \A id \in Notes :
            (sd.pc = "idle" /\ sd'.res = "ok" /\ HardDelete(id)) =>
                \A n \in Subtree(treeStore, id) :
                    ~hasObject(store', n) /\ Item(treeStore', n).absent]_vars

----------------------------------------------------------------------------
(* The save and the soft delete together (SpecSave) *)

\* C38: when the content request of a save was answered while a soft
\* delete was running over the same note, then once the soft delete has
\* finished the note holds the content the save sent and is deleted.
C38_UpdateAndTombstoneBothKept ==
    (sd.pc = "done" /\ sv.posted /\ sv.during) =>
        /\ getObject(store, sv.id) = sv.content
        /\ Deleted(store, sv.id) = Num(NOTE_DELETED_DELETED)

\* C39: a save that ended as failed has left the content and the title of
\* the note on the server as they were when the save began.
C39_FailedSaveWritesNothing ==
    (sv.pc = "done" /\ sv.out = "failed") =>
        /\ getObject(store, sv.id) = sv.before.content
        /\ StoredTitle(store, sv.id) = sv.before.title

====
